---- MODULE Spec2Model ----
(***************************************************************************)
(* A model of the patent enrichment pipeline: the Locator and XML          *)
(* Extractor (enrichment/xml_parser.py), the HTML Extractor                *)
(* (enrichment/google_patents.py), the Merger and the pipeline driver      *)
(* (enrichment/enrich_patents.py) and the download helpers                 *)
(* (enrichment/uspto_download.py).                                         *)
(*                                                                         *)
(* Text is modelled as a sequence of one-character strings where the code  *)
(* inspects characters (identifiers, file attributes, dates), and as a     *)
(* sequence of tokens where the code's regular expressions only look at    *)
(* whole tags or words (archive blobs, pages, claim bodies).               *)
(*                                                                         *)
(* Python values are tagged records: None, Str(s), PyInt(n), List(l).      *)
(***************************************************************************)
EXTENDS Integers, Sequences, FiniteSets, TLC

VARIABLES
    \* Locator (find_patent_in_xml)
    xml_content,      \* the archive text, a sequence of tokens
    patent_number,    \* the target identifier, a sequence of characters
    locResult,        \* the returned text (Str) or None
    locPc,            \* "idle" | "call" | "done"
    \* XML Extractor (parse_patent_xml)
    xml_string,       \* the isolated document
    xmlResult,        \* the returned dict
    xmlPc,
    \* HTML Extractor (parse_google_patents_html)
    html,             \* the page, a sequence of tokens
    htmlTarget,       \* the patent_number argument
    htmlResult,       \* the returned dict
    htmlPc,
    \* Merger (merge_patent_data)
    uspto_data,       \* the Primary Record argument (dict or None)
    google_data,      \* the Enrichment Record argument (dict or None)
    mergeNumber,      \* the patent_number argument
    merged,           \* the returned dict
    uspto_before,     \* uspto_data as it was before the first call
    google_before,    \* google_data as it was before the first call
    uspto_data2,      \* the Primary Record argument of a call with other records
    google_data2,     \* the Enrichment Record argument of that call
    merged2,          \* the dict returned by the second call
    mergePc,          \* "idle" | "call" | "done" | "done2"
    \* Pipeline driver (main)
    args,             \* the command line flags
    patent_numbers,   \* the identifiers of the template, in order
    world,            \* per identifier, what the outside world does to it
    disk,             \* the weekly files present in the downloads directory
    uspto_results,    \* identifier -> Primary Record
    google_results,   \* identifier -> Enrichment Record
    output,           \* the value written to the output file, or None
    mainPc,           \* the position of main()
    \* Weekly file naming (grant_date_to_weekly_filename)
    grantDate,        \* the grant_date argument, "YYYY-MM-DD"
    weekly_filename,  \* the returned filename, or None
    filePc,
    \* Downloads (download_all_required, download_file)
    dlNumbers,        \* the patent_numbers argument of download_all_required
    required_files,   \* filename -> the patents of that file, or None
    remaining,        \* the sorted filenames the loop has not reached yet
    attempted,        \* the calls of download_file so far: filename, success
    patentToFile,     \* patent_to_file: patent -> local path
    downloads,        \* the downloads directory: filename -> what is stored
    downloadsBefore,  \* the downloads directory before the last call
    dlFilename,       \* the filename argument of the last download_file call
    dlReturned,       \* what that call returned, or None
    dlRan,            \* whether that call ran the download script
    dlPc,
    \* Scraper (scrape_all_patents)
    scrapeNumbers,    \* the patent_numbers argument
    scrapeDelay,      \* the delay argument, in seconds
    scrapeIndex,      \* i, the position of the loop (from 0)
    scrapeResults,    \* results: identifier -> Enrichment Record
    timeline,         \* the fetches and the sleeps so far, in order
    scrapePc

locVars   == <<xml_content, patent_number, locResult, locPc>>
xmlVars   == <<xml_string, xmlResult, xmlPc>>
htmlVars  == <<html, htmlTarget, htmlResult, htmlPc>>
mergeVars == <<uspto_data, google_data, mergeNumber, merged, uspto_before,
               google_before, uspto_data2, google_data2, merged2, mergePc>>
mainVars  == <<args, patent_numbers, world, disk, uspto_results,
               google_results, output, mainPc>>
fileVars  == <<grantDate, weekly_filename, filePc>>
dlVars    == <<dlNumbers, required_files, remaining, attempted, patentToFile,
               downloads, downloadsBefore, dlFilename, dlReturned, dlRan, dlPc>>
scrapeVars == <<scrapeNumbers, scrapeDelay, scrapeIndex, scrapeResults,
                timeline, scrapePc>>
vars      == <<locVars, xmlVars, htmlVars, mergeVars, mainVars, fileVars,
               dlVars, scrapeVars>>

----------------------------------------------------------------------------
(* Bounds of the model *)

\* the longest archive text, in tokens
MaxTokens == 3
\* the most claim elements in a document
MaxClaims == 2
\* the longest page, in tokens
MaxPage == 3
\* the longest page with family sections, in tokens
MaxFamilyPage == 5
\* the most rows in a page's "Families Citing" table
MaxFamCiting == 1
\* the most identifiers in a template
MaxBatch == 2
\* the most identifiers in a call of download_all_required
MaxRequested == 3
\* the most identifiers in a call of scrape_all_patents
MaxScrape == 3

----------------------------------------------------------------------------
(* Python values *)

None == [t |-> "None"]
Str(s) == [t |-> "str", v |-> s]
PyInt(n) == [t |-> "int", v |-> n]
List(l) == [t |-> "list", v |-> l]

\* Python truthiness of a value (a dict, a TLA+ function, is handled by DictTruthy)
Truthy(x) ==
    CASE x.t = "None" -> FALSE
      [] x.t = "str"  -> Len(x.v) > 0
      [] x.t = "list" -> Len(x.v) > 0
      [] x.t = "int"  -> x.v # 0

\* x or y
PyOr(x, y) == IF Truthy(x) THEN x ELSE y

\* A dict argument is [none |-> BOOLEAN, d |-> function from keys to values]
NoDict == [none |-> TRUE, d |-> <<>>]
Dict(f) == [none |-> FALSE, d |-> f]
DictTruthy(a) == ~a.none /\ DOMAIN a.d # {}
\* d.get(k, default)
Get(a, k, default) == IF k \in DOMAIN a.d THEN a.d[k] ELSE default

----------------------------------------------------------------------------
(* Characters *)

Digits == {"0", "1", "2", "3", "4", "5", "6", "7", "8", "9"}
Upper == {"A", "B", "C", "D", "E", "F", "G", "H", "I", "J", "K", "L", "M",
          "N", "O", "P", "Q", "R", "S", "T", "U", "V", "W", "X", "Y", "Z"}
IsDigit(c) == c \in Digits

\* s.startswith(p)
StartsWith(s, p) == Len(p) <= Len(s) /\ SubSeq(s, 1, Len(p)) = p

\* the number of leading digits of s from position i on
RECURSIVE DigitRun(_, _)
DigitRun(s, i) ==
    IF i > Len(s) \/ ~IsDigit(s[i]) THEN 0 ELSE 1 + DigitRun(s, i + 1)

RECURSIVE Zeros(_)
Zeros(n) == IF n <= 0 THEN <<>> ELSE <<"0">> \o Zeros(n - 1)

\* the width normalize_patent_number pads to
PadWidth == 8

\* str.zfill(width) of a digit string
zfill(s, width) == Zeros(width - Len(s)) \o s

----------------------------------------------------------------------------
(* Locator: enrichment/xml_parser.py *)

\* An archive text is a sequence of tokens:
\*   [k |-> "open", file |-> f]   <us-patent-grant ... file="f" ...>
\*   [k |-> "close", file |-> <<>>]   </us-patent-grant>
\*   [k |-> "text", file |-> <<>>]    anything else
OpenTag(f) == [k |-> "open", file |-> f]
CloseTag == [k |-> "close", file |-> <<>>]
TextTok == [k |-> "text", file |-> <<>>]

\* re.match(r'US(\d+)[A-Z]\d*', patent_num)
NormalizeMatches(patent_num) ==
    /\ StartsWith(patent_num, <<"U", "S">>)
    /\ DigitRun(patent_num, 3) >= 1
    /\ Len(patent_num) >= 3 + DigitRun(patent_num, 3)
    /\ patent_num[3 + DigitRun(patent_num, 3)] \in Upper

normalize_patent_number(patent_num) ==
    IF NormalizeMatches(patent_num)
    THEN zfill(SubSeq(patent_num, 3, 2 + DigitRun(patent_num, 3)), PadWidth)
    ELSE patent_num

\* the opening-tag pattern matches token i: <us-patent-grant[^>]+file="US{normalized}
OpenMatches(content, i, normalized) ==
    /\ content[i].k = "open"
    /\ StartsWith(content[i].file, <<"U", "S">> \o normalized)

\* lines 39-61 with a missing closing tag reported as not found
find_patent_in_xmlNoTruncated(content, patent_num) ==
    LET normalized == normalize_patent_number(patent_num)
        hits == {i \in 1..Len(content) : OpenMatches(content, i, normalized)}
    IN  IF hits = {} THEN None
        ELSE LET start_pos == CHOOSE i \in hits : \A j \in hits : i <= j
                 ends == {j \in start_pos..Len(content) : content[j].k = "close"}
             IN  IF ends = {} THEN None
                 ELSE Str(SubSeq(content, start_pos,
                                 CHOOSE j \in ends : \A l \in ends : j <= l))
\* lines 39-61
find_patent_in_xml(content, patent_num) ==
    LET normalized == normalize_patent_number(patent_num)
        hits == {i \in 1..Len(content) : OpenMatches(content, i, normalized)}
    IN  IF hits = {} THEN None
        ELSE LET start_pos == CHOOSE i \in hits : \A j \in hits : i <= j
                 ends == {j \in start_pos..Len(content) : content[j].k = "close"}
                 end_pos == IF ends # {}
                            THEN CHOOSE j \in ends : \A l \in ends : j <= l
                            ELSE Len(content)
             IN  Str(SubSeq(content, start_pos, end_pos))

----------------------------------------------------------------------------
(* XML Extractor: enrichment/xml_parser.py *)

\* The result of root.find(...): no element, or an element with its text
\* (None for an element without text).
Absent == [e |-> FALSE, text |-> None]
Elem(text) == [e |-> TRUE, text |-> text]

\* A raised exception, in place of a returned value
Raised(name) == [t |-> "raise", v |-> name]

\* str(x) inside an f-string
Fmt(x) == IF x.t = "None" THEN <<"N", "o", "n", "e">> ELSE x.v

\* str.strip() of a sequence of characters or words
RECURSIVE LStrip(_)
LStrip(s) == IF s # <<>> /\ Head(s) = " " THEN LStrip(Tail(s)) ELSE s
RECURSIVE RStrip(_)
RStrip(s) ==
    IF s # <<>> /\ s[Len(s)] = " " THEN RStrip(SubSeq(s, 1, Len(s) - 1)) ELSE s
Strip(s) == RStrip(LStrip(s))

\* the length a date field must have
DateLen == 8
\* the shortest application number that is reformatted
AppNumMinLen == 8

\* f"{d[:4]}-{d[4:6]}-{d[6:8]}"
FormatDate(d) ==
    SubSeq(d, 1, 4) \o <<"-">> \o SubSeq(d, 5, 6) \o <<"-">> \o SubSeq(d, 7, 8)

\* if d and len(d) == 8: ... (the value the field gets, None when left alone)
DateOf(elem) ==
    IF elem.e /\ Truthy(elem.text) /\ Len(elem.text.v) = DateLen
    THEN Str(FormatDate(elem.text.v))
    ELSE None

\* lines 135-143
ApplicationNumberOf(app_num) ==
    IF ~app_num.e THEN None
    ELSE IF Truthy(app_num.text) /\ Len(app_num.text.v) >= AppNumMinLen
         THEN Str(SubSeq(app_num.text.v, 1, 2) \o <<"/">>
                  \o SubSeq(app_num.text.v, 3, Len(app_num.text.v)))
         ELSE app_num.text

\* lines 145-160
PriorityDateOf(prov_date, app_date) ==
    LET filing_date == DateOf(app_date)
    IN  IF prov_date.e THEN DateOf(prov_date)
        ELSE IF Truthy(filing_date) THEN filing_date
        ELSE None

\* lines 162-171
AssigneeOriginalOf(orgname, first_name, last_name) ==
    IF orgname.e THEN orgname.text
    ELSE IF last_name.e /\ first_name.e
         THEN Str(Fmt(first_name.text) \o <<" ">> \o Fmt(last_name.text))
         ELSE None

\* lines 177-185: one related-publication document-id; a kind element without
\* text makes "member += kind.text" raise TypeError
FamilyMemberRaises(rel) == rel.country.e /\ rel.doc_number.e /\ rel.kind.e
                           /\ rel.kind.text.t = "None"
FamilyMemberOf(rel) ==
    Fmt(rel.country.text) \o Fmt(rel.doc_number.text)
        \o (IF rel.kind.e THEN rel.kind.text.v ELSE <<>>)
RECURSIVE FamilyMembersOf(_)
FamilyMembersOf(rels) ==
    IF rels = <<>> THEN <<>>
    ELSE IF Head(rels).country.e /\ Head(rels).doc_number.e
         THEN <<FamilyMemberOf(Head(rels))>> \o FamilyMembersOf(Tail(rels))
         ELSE FamilyMembersOf(Tail(rels))

\* Claim bodies are sequences of words (joined by single spaces in the text).
\* str.lower() of a word, for re.IGNORECASE
Lower(w) ==
    CASE w = "A" -> "a"
      [] w = "An" -> "an"
      [] w = "The" -> "the"
      [] w = "Of" -> "of"
      [] w = "OF" -> "of"
      [] w = "Claim" -> "claim"
      [] w = "CLAIM" -> "claim"
      [] w = "According" -> "according"
      [] w = "To" -> "to"
      [] w = "System" -> "system"
      [] w = "Method" -> "method"
      [] OTHER -> w

\* len(w), for the .{0,20} gap of the medium pattern
WordLen(w) ==
    CASE w \in {"a", "A"} -> 1
      [] w \in {"An", "an", "of", "to"} -> 2
      [] w \in {"program", "product", "storage"} -> 7
      [] w \in {"readable", "computer"} -> 8
      [] w = "non-transitory" -> 14
      [] w = "computer-readable" -> 17
      [] w = "machine-executable" -> 18
      [] OTHER -> 6

\* words of the form \d+\. and words that begin with a digit
NumDot == {"1.", "2.", "3.", "4.", "5.", "6.", "7.", "8."}
BeginsWithDigit(w) == w \in NumDot \cup {"1", "2", "3", "1,", "2,"}
EndsWithOf(w) == Lower(w) \in {"of", "thereof"}
EndsWithAccording(w) == Lower(w) = "according"
BeginsWithSystem(w) == Lower(w) \in {"system", "systems", "apparatus", "device"}
BeginsWithMethod(w) == Lower(w) \in {"method", "methods", "process"}
BeginsWithComputer(w) == Lower(w) \in {"computer", "computer-readable"}
BeginsWithMedium(w) == Lower(w) \in {"medium", "media", "storage"}

\* re.search(r'of claim \d+|according to claim \d+', full_text, re.IGNORECASE)
MatchesDependency(text) ==
    \/ \E i \in 1..(Len(text) - 2) :
          /\ EndsWithOf(text[i])
          /\ Lower(text[i + 1]) = "claim"
          /\ BeginsWithDigit(text[i + 2])
    \/ \E i \in 1..(Len(text) - 3) :
          /\ EndsWithAccording(text[i])
          /\ Lower(text[i + 1]) = "to"
          /\ Lower(text[i + 2]) = "claim"
          /\ BeginsWithDigit(text[i + 3])

\* re.match(r'\d+\.\s*A (system|apparatus|device)', text, re.IGNORECASE)
MatchesSystem(text) ==
    /\ Len(text) >= 3
    /\ text[1] \in NumDot
    /\ Lower(text[2]) = "a"
    /\ BeginsWithSystem(text[3])

\* re.match(r'\d+\.\s*A (method|process)', text, re.IGNORECASE)
MatchesMethod(text) ==
    /\ Len(text) >= 3
    /\ text[1] \in NumDot
    /\ Lower(text[2]) = "a"
    /\ BeginsWithMethod(text[3])

\* the characters between "computer" in word c and the start of word j
RECURSIVE GapLen(_, _, _)
GapLen(text, c, j) ==
    IF j = c + 1 THEN (WordLen(text[c]) - 8) + 1
    ELSE GapLen(text, c, j - 1) + WordLen(text[j - 1]) + 1

\* the widest gap the medium pattern allows
MediumGap == 20

\* re.match(r'\d+\.\s*(A |An )?(non-transitory )?computer.{0,20}(medium|storage)', ...)
MatchesMedium(text) ==
    /\ Len(text) >= 2
    /\ text[1] \in NumDot
    /\ \E a \in {0, 1}, b \in {0, 1} :
          LET c == 2 + a + b
          IN  /\ c <= Len(text)
              /\ a = 1 => Lower(text[2]) \in {"a", "an"}
              /\ b = 1 => Lower(text[2 + a]) = "non-transitory"
              /\ BeginsWithComputer(text[c])
              /\ \E j \in (c + 1)..Len(text) :
                    /\ BeginsWithMedium(text[j])
                    /\ GapLen(text, c, j) <= MediumGap

\* lines 219-226
ClaimTypeOf(text) ==
    IF MatchesSystem(text) THEN "system"
    ELSE IF MatchesMethod(text) THEN "method"
    ELSE IF MatchesMedium(text) THEN "medium"
    ELSE "method"

\* int(s) of a string of digits
DigitVal(c) ==
    CASE c = "0" -> 0 [] c = "1" -> 1 [] c = "2" -> 2 [] c = "3" -> 3
      [] c = "4" -> 4 [] c = "5" -> 5 [] c = "6" -> 6 [] c = "7" -> 7
      [] c = "8" -> 8 [] c = "9" -> 9
RECURSIVE ParseInt(_)
ParseInt(s) ==
    IF s = <<>> THEN 0
    ELSE 10 * ParseInt(SubSeq(s, 1, Len(s) - 1)) + DigitVal(s[Len(s)])
\* str.isdigit()
IsDigitStr(s) == s # <<>> /\ \A i \in 1..Len(s) : IsDigit(s[i])

\* line 228
ClaimNumberOf(claim_num) == IF IsDigitStr(claim_num) THEN ParseInt(claim_num) ELSE 0

\* A claim element is [num |-> characters, texts |-> its direct claim-text
\* children, each [has_ref |-> BOOLEAN, text |-> words]].
\* lines 196-214 without the test of the text at line 213
ClaimIsKeptNoPhraseTest(claim) ==
    /\ claim.texts # <<>>
    /\ ~claim.texts[1].has_ref
\* lines 196-214: the claim is kept
ClaimIsKept(claim) ==
    /\ claim.texts # <<>>
    /\ ~claim.texts[1].has_ref
    /\ ~MatchesDependency(Strip(claim.texts[1].text))

\* lines 217-234
ClaimEntryOf(claim) ==
    LET full_text == Strip(claim.texts[1].text)
    IN  [number |-> ClaimNumberOf(claim.num),
         type |-> ClaimTypeOf(full_text),
         text |-> full_text]

\* lines 190-234
RECURSIVE IndependentClaimsOf(_)
IndependentClaimsOf(claims) ==
    IF claims = <<>> THEN <<>>
    ELSE IF ClaimIsKept(Head(claims))
         THEN <<ClaimEntryOf(Head(claims))>> \o IndependentClaimsOf(Tail(claims))
         ELSE IndependentClaimsOf(Tail(claims))

\* lines 95-104
XmlDefaults ==
    [title |-> None, abstract |-> None, grant_date |-> None,
     priority_date |-> None, application_number |-> None,
     assignee_original |-> None, independent_claims |-> List(<<>>),
     application_family_members |-> List(<<>>)]

\* lines 108-114: re.sub(r'<!DOCTYPE[^>]+>', '', xml_string) removes a
\* declaration up to its first ">", so one with an internal subset
\* ("subset") leaves text before the root element; ET.fromstring succeeds
ParsesOk(doc) == doc.wellformed /\ doc.doctype # "subset"

parse_patent_xml(doc) ==
    IF ~ParsesOk(doc) THEN XmlDefaults
    ELSE IF \E i \in 1..Len(doc.related) : FamilyMemberRaises(doc.related[i])
         THEN Raised("TypeError")
         ELSE [title |-> IF doc.title.e THEN doc.title.text ELSE None,
               abstract |-> IF doc.abstract.e
                            THEN Str(Strip(doc.abstract.text.v)) ELSE None,
               grant_date |-> DateOf(doc.pub_date),
               priority_date |-> PriorityDateOf(doc.prov_date, doc.app_date),
               application_number |-> ApplicationNumberOf(doc.app_num),
               assignee_original |->
                   AssigneeOriginalOf(doc.orgname, doc.first_name, doc.last_name),
               independent_claims |-> List(IndependentClaimsOf(doc.claims)),
               application_family_members |-> List(FamilyMembersOf(doc.related))]

----------------------------------------------------------------------------
(* HTML Extractor: enrichment/google_patents.py *)

\* A page is a sequence of tokens:
\*   [k |-> "h2", title, n]      <h2>title (n)</h2>, n = None without a count
\*   [k |-> "text", title, n]    the same words outside an <h2>
\*   [k |-> "sectionEnd"]        </section>
\*   [k |-> "articleEnd"]        </article>
\*   [k |-> "pub", s]            >s< : the text of one element
\*   [k |-> "expAttr", d]        itemprop="expiration" ... datetime="d"
\*   [k |-> "ifiExp", d]         itemprop="ifiExpiration">d<
\*   [k |-> "time", d]           <time ... datetime="d">...</time>
\*   [k |-> "span", label]       <span ...>label
\*   [k |-> "label", s]          the words s (a <dt> label)
\*   [k |-> "dd", content]       <dd>content</dd>
\*   [k |-> "fwdRef"]            itemprop="forwardReferences..."
\*   [k |-> "assigneeOriginal", span, s]   itemprop="assigneeOriginal">s<
H2(title, n) == [k |-> "h2", title |-> title, n |-> n]
PageText(title, n) == [k |-> "text", title |-> title, n |-> n]
SectionEnd == [k |-> "sectionEnd"]
ArticleEnd == [k |-> "articleEnd"]
Pub(s) == [k |-> "pub", s |-> s]
ExpAttr(d) == [k |-> "expAttr", d |-> d]
IfiExp(d) == [k |-> "ifiExp", d |-> d]
TimeTok(d) == [k |-> "time", d |-> d]
SpanTok(label) == [k |-> "span", label |-> label]
LabelTok(s) == [k |-> "label", s |-> s]
DdTok(content) == [k |-> "dd", content |-> content]
FwdRef == [k |-> "fwdRef"]
AssigneeOriginal(span, s) == [k |-> "assigneeOriginal", span |-> span, s |-> s]

\* the least element of a non-empty set of integers
Least(S) == CHOOSE i \in S : \A j \in S : i <= j

\* lines 61-67
RECURSIVE SumCitedBy(_)
SumCitedBy(page) ==
    IF page = <<>> THEN 0
    ELSE (IF Head(page).k = "h2" /\ Head(page).title = "Cited By"
             /\ Head(page).n.t = "int"
          THEN Head(page).n.v ELSE 0) + SumCitedBy(Tail(page))

IsFamiliesCitingCount(tok) ==
    /\ tok.k \in {"h2", "text"}
    /\ tok.title = "Families Citing this family"
    /\ tok.n.t = "int"

\* lines 61-67 with re.search in place of re.findall at line 61
ForwardCitesOfFirstCitedBy(page) ==
    LET cb == {i \in 1..Len(page) :
                  /\ page[i].k = "h2" /\ page[i].title = "Cited By"
                  /\ page[i].n.t = "int"}
        fc == {i \in 1..Len(page) : IsFamiliesCitingCount(page[i])}
    IN  (IF cb # {} THEN page[Least(cb)].n.v ELSE 0)
        + (IF fc # {} THEN page[Least(fc)].n.v ELSE 0)
\* lines 61-67
ForwardCitesOf(page) ==
    LET fc == {i \in 1..Len(page) : IsFamiliesCitingCount(page[i])}
    IN  SumCitedBy(page) + (IF fc # {} THEN page[Least(fc)].n.v ELSE 0)

\* \d{4}-\d{2}-\d{2}
IsIsoDate(d) ==
    /\ Len(d) = 10
    /\ \A i \in {1, 2, 3, 4, 6, 7, 9, 10} : IsDigit(d[i])
    /\ d[5] = "-" /\ d[8] = "-"

\* line 70
ExpAttrHits(page) ==
    {i \in 1..Len(page) : page[i].k = "expAttr" /\ IsIsoDate(page[i].d)}
\* line 72
IfiExpHits(page) ==
    {i \in 1..Len(page) : page[i].k = "ifiExp" /\ IsIsoDate(page[i].d)}
\* lines 76-79
ExpirationLabels == {"Anticipated expiration", "Adjusted expiration"}
EventHits(page) ==
    {i \in 1..(Len(page) - 1) :
        /\ page[i].k = "time" /\ IsIsoDate(page[i].d)
        /\ page[i + 1].k = "span" /\ page[i + 1].label \in ExpirationLabels}

\* lines 70-81 with the heuristic pattern tried first
ExpirationOfHeuristicFirst(page) ==
    IF EventHits(page) # {} THEN Str(page[Least(EventHits(page))].d)
    ELSE IF ExpAttrHits(page) # {} THEN Str(page[Least(ExpAttrHits(page))].d)
    ELSE IF IfiExpHits(page) # {} THEN Str(page[Least(IfiExpHits(page))].d)
    ELSE None
\* lines 70-81
ExpirationOf(page) ==
    IF ExpAttrHits(page) # {} THEN Str(page[Least(ExpAttrHits(page))].d)
    ELSE IF IfiExpHits(page) # {} THEN Str(page[Least(IfiExpHits(page))].d)
    ELSE IF EventHits(page) # {} THEN Str(page[Least(EventHits(page))].d)
    ELSE None

\* >(US\d{7,}[AB]\d?)<
MinPubDigits == 7
IsFamilyPub(s) ==
    LET n == DigitRun(s, 3)
    IN  /\ StartsWith(s, <<"U", "S">>)
        /\ n >= MinPubDigits
        /\ Len(s) >= 3 + n
        /\ s[3 + n] \in {"A", "B"}
        /\ \/ Len(s) = 3 + n
           \/ Len(s) = 4 + n /\ IsDigit(s[4 + n])

\* <h2>header</h2>(.*?)(?=<h2>|</section>): the tokens between the first
\* header (heads: the indices of the tokens that are such a header) and the
\* nearest following <h2> or closing tag; found is FALSE when the pattern
\* does not match
SectionOf(page, heads, closing) ==
    IF heads = {} THEN [found |-> FALSE, body |-> <<>>]
    ELSE LET h == Least(heads)
             stops == {j \in (h + 1)..Len(page) : page[j].k \in {"h2", closing}}
         IN  IF stops = {} THEN [found |-> FALSE, body |-> <<>>]
             ELSE [found |-> TRUE,
                   body |-> SubSeq(page, h + 1, Least(stops) - 1)]

IsFamilyApplications(tok) ==
    tok.k = "h2" /\ tok.title = "Family Applications" /\ tok.n.t = "int"
IsAlsoPublished(tok) ==
    tok.k = "h2" /\ tok.title = "Also Published As" /\ tok.n.t = "None"
IsPriorityApplications(tok) ==
    tok.k = "h2" /\ tok.title = "Priority Applications" /\ tok.n.t = "int"

\* lines 109-112, 118-121, 127-130: the three family sections
FamilyApplicationsOf(page) ==
    SectionOf(page, {i \in 1..Len(page) : IsFamilyApplications(page[i])},
              "sectionEnd")
AlsoPublishedOf(page) ==
    SectionOf(page, {i \in 1..Len(page) : IsAlsoPublished(page[i])},
              "sectionEnd")
PriorityApplicationsOf(page) ==
    SectionOf(page, {i \in 1..Len(page) : IsPriorityApplications(page[i])},
              "sectionEnd")

\* re.findall(r'>(US\d{7,}[AB]\d?)<', section)
PubsIn(body) ==
    {body[i].s : i \in {j \in 1..Len(body) :
                           body[j].k = "pub" /\ IsFamilyPub(body[j].s)}}

\* the characters in code point order
Alphabet ==
    <<" ", "(", ")", ",", "-", ".", "/",
      "0", "1", "2", "3", "4", "5", "6", "7", "8", "9",
      "A", "B", "C", "D", "E", "F", "G", "H", "I", "J", "K", "L", "M",
      "N", "O", "P", "Q", "R", "S", "T", "U", "V", "W", "X", "Y", "Z",
      "a", "b", "c", "d", "e", "f", "g", "h", "i", "j", "k", "l", "m",
      "n", "o", "p", "q", "r", "s", "t", "u", "v", "w", "x", "y", "z">>
Ord(c) == CHOOSE i \in 1..Len(Alphabet) : Alphabet[i] = c

\* a < b for Python strings
RECURSIVE StrLess(_, _)
StrLess(a, b) ==
    IF b = <<>> THEN FALSE
    ELSE IF a = <<>> THEN TRUE
    ELSE IF Head(a) = Head(b) THEN StrLess(Tail(a), Tail(b))
    ELSE Ord(Head(a)) < Ord(Head(b))

\* sorted(list(S)) of a set of strings
RECURSIVE SortedStrs(_)
SortedStrs(S) ==
    IF S = {} THEN <<>>
    ELSE LET m == CHOOSE x \in S : \A y \in S \ {x} : StrLess(x, y)
         IN  <<m>> \o SortedStrs(S \ {m})

\* lines 106-137 without the discard at line 136
SimpleFamilyOfKeepSelf(page, patent_num) ==
    LET fam == FamilyApplicationsOf(page)
        also == AlsoPublishedOf(page)
        prio == PriorityApplicationsOf(page)
    IN  SortedStrs(PubsIn(fam.body) \cup PubsIn(also.body) \cup PubsIn(prio.body))
\* lines 106-137
SimpleFamilyOf(page, patent_num) ==
    LET fam == FamilyApplicationsOf(page)
        also == AlsoPublishedOf(page)
        prio == PriorityApplicationsOf(page)
        family_pubs == PubsIn(fam.body) \cup PubsIn(also.body) \cup PubsIn(prio.body)
    IN  SortedStrs(family_pubs \ {patent_num})

\* The content of a <dd> is a sequence of pieces:
\*   [p |-> "tag"]        markup
\*   [p |-> "nl"]         a line break
\*   [p |-> "listed"]     the words "The listed assignees"
\*   [p |-> "google"]     the words "Google has not"
\*   [p |-> "word", s]    a word
\* lines 90-93: the words that remain; from a disclaimer to the end of its
\* line everything is removed
RECURSIVE CleanWords(_, _)
CleanWords(content, dropping) ==
    IF content = <<>> THEN <<>>
    ELSE LET piece == Head(content)
         IN  CASE piece.p = "nl" -> CleanWords(Tail(content), FALSE)
               [] piece.p \in {"listed", "google"} -> CleanWords(Tail(content), TRUE)
               [] piece.p = "tag" -> CleanWords(Tail(content), dropping)
               [] piece.p = "word" ->
                    (IF dropping THEN <<>> ELSE <<piece.s>>)
                    \o CleanWords(Tail(content), dropping)

\* ' '.join(words)
RECURSIVE JoinWords(_)
JoinWords(words) ==
    IF words = <<>> THEN <<>>
    ELSE IF Len(words) = 1 THEN words[1]
    ELSE words[1] \o <<" ">> \o JoinWords(Tail(words))

\* the length an assignee must exceed
MinAssigneeLen == 2

IsCurrentAssigneeLabel(tok) ==
    tok.k = "label" /\ tok.s \in {"Current Assignee", "current assignee"}

\* lines 84-95
CurrentAssigneeBlockOf(page) ==
    LET labels == {i \in 1..Len(page) : IsCurrentAssigneeLabel(page[i])}
        dds == IF labels = {} THEN {}
               ELSE {j \in (Least(labels) + 1)..Len(page) : page[j].k = "dd"}
    IN  IF dds = {} THEN None
        ELSE LET assignee_clean ==
                     JoinWords(CleanWords(page[Least(dds)].content, FALSE))
             IN  IF Len(assignee_clean) > MinAssigneeLen
                 THEN Str(assignee_clean) ELSE None

\* lines 84-95 without the fallback of lines 97-103
AssigneeCurrentOfNoFallback(page) == CurrentAssigneeBlockOf(page)
\* lines 97-103
AssigneeCurrentOf(page) ==
    LET block == CurrentAssigneeBlockOf(page)
        alts == {i \in 1..Len(page) :
                    /\ page[i].k = "assigneeOriginal"
                    /\ page[i].span /\ page[i].s # <<>>}
    IN  IF Truthy(block) THEN block
        ELSE IF alts # {} THEN Str(Strip(page[Least(alts)].s))
        ELSE block

\* str.upper()
UpperChar(c) == IF Ord(c) >= 44 THEN Alphabet[Ord(c) - 26] ELSE c
ToUpper(s) == [i \in 1..Len(s) |-> UpperChar(s[i])]

\* str(n) of a natural number
RECURSIVE IntToChars(_)
IntToChars(n) ==
    IF n < 10 THEN <<Alphabet[8 + n]>>
    ELSE IntToChars(n \div 10) \o <<Alphabet[8 + (n % 10)]>>

\* lines 143-146: the assignee names of the forward-reference entries from
\* token pos on, each entry running from a forwardReferences attribute to the
\* nearest following assigneeOriginal element
RECURSIVE CitingEntries(_, _)
CitingEntries(page, pos) ==
    LET refs == {i \in pos..Len(page) : page[i].k = "fwdRef"}
        names == IF refs = {} THEN {}
                 ELSE {j \in (Least(refs) + 1)..Len(page) :
                          page[j].k = "assigneeOriginal" /\ page[j].s # <<>>}
    IN  IF names = {} THEN <<>>
        ELSE <<page[Least(names)].s>> \o CitingEntries(page, Least(names) + 1)

IsFamiliesCitingHeader(tok) ==
    tok.k = "h2" /\ tok.title = "Families Citing this family"

\* lines 158-161
RECURSIVE AssigneesIn(_)
AssigneesIn(body) ==
    IF body = <<>> THEN <<>>
    ELSE (IF Head(body).k = "assigneeOriginal" /\ Head(body).s # <<>>
          THEN <<Head(body).s>> ELSE <<>>) \o AssigneesIn(Tail(body))

\* the length a citing assignee's name must exceed
MinCitingLen == 3
\* the number of citing assignees kept
TopCiting == 7

\* lines 147-150, 162-165: the names that are counted, cleaned
RECURSIVE CountedNames(_)
CountedNames(raw) ==
    IF raw = <<>> THEN <<>>
    ELSE LET assignee_clean == ToUpper(Strip(Head(raw)))
         IN  (IF Len(assignee_clean) > MinCitingLen
              THEN <<assignee_clean>> ELSE <<>>) \o CountedNames(Tail(raw))

CountOf(names, name) == Cardinality({i \in 1..Len(names) : names[i] = name})

\* sorted(assignee_counts.items(), key=lambda x: (-x[1], x[0]))
RECURSIVE SortedByCount(_, _)
SortedByCount(S, names) ==
    IF S = {} THEN <<>>
    ELSE LET m == CHOOSE x \in S : \A y \in S \ {x} :
                      \/ CountOf(names, x) > CountOf(names, y)
                      \/ CountOf(names, x) = CountOf(names, y) /\ StrLess(x, y)
         IN  <<m>> \o SortedByCount(S \ {m}, names)

\* lines 140-171 with the ties of line 168 left in arbitrary (here reverse
\* alphabetical) order
TopCitingOfTiesUnordered(page) ==
    LET fams == SectionOf(page,
                          {i \in 1..Len(page) : IsFamiliesCitingHeader(page[i])},
                          "articleEnd")
        names == CountedNames(CitingEntries(page, 1) \o AssigneesIn(fams.body))
        RECURSIVE ByCountOnly(_)
        ByCountOnly(S) ==
            IF S = {} THEN <<>>
            ELSE LET m == CHOOSE x \in S : \A y \in S \ {x} :
                              \/ CountOf(names, x) > CountOf(names, y)
                              \/ CountOf(names, x) = CountOf(names, y)
                                 /\ StrLess(y, x)
                 IN  <<m>> \o ByCountOnly(S \ {m})
        sorted_assignees == ByCountOnly({names[i] : i \in 1..Len(names)})
        kept == SubSeq(sorted_assignees, 1,
                       IF Len(sorted_assignees) < TopCiting
                       THEN Len(sorted_assignees) ELSE TopCiting)
    IN  IF names = <<>> THEN None
        ELSE List([i \in 1..Len(kept) |->
                     Str(kept[i] \o <<" ", "(">>
                         \o IntToChars(CountOf(names, kept[i])) \o <<")">>)])
\* lines 140-171
TopCitingOf(page) ==
    LET fams == SectionOf(page,
                          {i \in 1..Len(page) : IsFamiliesCitingHeader(page[i])},
                          "articleEnd")
        names == CountedNames(CitingEntries(page, 1) \o AssigneesIn(fams.body))
        sorted_assignees == SortedByCount({names[i] : i \in 1..Len(names)}, names)
        kept == SubSeq(sorted_assignees, 1,
                       IF Len(sorted_assignees) < TopCiting
                       THEN Len(sorted_assignees) ELSE TopCiting)
    IN  IF names = <<>> THEN None
        ELSE List([i \in 1..Len(kept) |->
                     Str(kept[i] \o <<" ", "(">>
                         \o IntToChars(CountOf(names, kept[i])) \o <<")">>)])

\* lines 47-173
parse_google_patents_html(page, patent_num) ==
    [forward_cites |-> PyInt(ForwardCitesOf(page)),
     top_citing_assignees |-> TopCitingOf(page),
     simple_family_members |-> List(SimpleFamilyOf(page, patent_num)),
     expiration |-> ExpirationOf(page),
     assignee_current |-> AssigneeCurrentOf(page)]

----------------------------------------------------------------------------
(* Merger: enrichment/enrich_patents.py *)

\* lines 126-141
MergeDefaultsNullCites(patent_num) ==
    [number |-> patent_num, title |-> None, grant_date |-> None,
     priority_date |-> None, expiration |-> None, application_number |-> None,
     assignee_original |-> None, assignee_current |-> None,
     forward_cites |-> None, top_citing_assignees |-> None,
     abstract |-> None, independent_claims |-> List(<<>>),
     application_family_members |-> List(<<>>),
     simple_family_members |-> List(<<>>)]
MergeDefaults(patent_num) ==
    [number |-> patent_num, title |-> None, grant_date |-> None,
     priority_date |-> None, expiration |-> None, application_number |-> None,
     assignee_original |-> None, assignee_current |-> None,
     forward_cites |-> PyInt(0), top_citing_assignees |-> None,
     abstract |-> None, independent_claims |-> List(<<>>),
     application_family_members |-> List(<<>>),
     simple_family_members |-> List(<<>>)]

\* lines 143-152
WithPrimary(result, uspto) ==
    IF DictTruthy(uspto)
    THEN [result EXCEPT
            !.title = Get(uspto, "title", None),
            !.grant_date = Get(uspto, "grant_date", None),
            !.priority_date = Get(uspto, "priority_date", None),
            !.application_number = Get(uspto, "application_number", None),
            !.assignee_original = Get(uspto, "assignee_original", None),
            !.abstract = Get(uspto, "abstract", None),
            !.independent_claims = Get(uspto, "independent_claims", List(<<>>)),
            !.application_family_members =
                Get(uspto, "application_family_members", List(<<>>))]
    ELSE result

\* lines 154-164, with the enrichment assignee also written to
\* assignee_original
WithEnrichmentSetsOriginal(result, google) ==
    IF DictTruthy(google)
    THEN [result EXCEPT
            !.forward_cites = Get(google, "forward_cites", PyInt(0)),
            !.top_citing_assignees = Get(google, "top_citing_assignees", None),
            !.simple_family_members =
                Get(google, "simple_family_members", List(<<>>)),
            !.expiration = Get(google, "expiration", None),
            !.assignee_current =
                PyOr(Get(google, "assignee_current", None),
                     result.assignee_original),
            !.assignee_original =
                PyOr(Get(google, "assignee_current", None),
                     result.assignee_original)]
    ELSE [result EXCEPT !.assignee_current = result.assignee_original]
\* lines 154-164, with "is not None" in place of "or"
WithEnrichmentKeepEmpty(result, google) ==
    IF DictTruthy(google)
    THEN [result EXCEPT
            !.forward_cites = Get(google, "forward_cites", PyInt(0)),
            !.top_citing_assignees = Get(google, "top_citing_assignees", None),
            !.simple_family_members =
                Get(google, "simple_family_members", List(<<>>)),
            !.expiration = Get(google, "expiration", None),
            !.assignee_current =
                IF Get(google, "assignee_current", None) # None
                THEN Get(google, "assignee_current", None)
                ELSE result.assignee_original]
    ELSE [result EXCEPT !.assignee_current = result.assignee_original]
\* lines 154-164
WithEnrichment(result, google) ==
    IF DictTruthy(google)
    THEN [result EXCEPT
            !.forward_cites = Get(google, "forward_cites", PyInt(0)),
            !.top_citing_assignees = Get(google, "top_citing_assignees", None),
            !.simple_family_members =
                Get(google, "simple_family_members", List(<<>>)),
            !.expiration = Get(google, "expiration", None),
            !.assignee_current =
                PyOr(Get(google, "assignee_current", None),
                     result.assignee_original)]
    ELSE [result EXCEPT !.assignee_current = result.assignee_original]

\* lines 120-166
merge_patent_data(uspto, google, patent_num) ==
    WithEnrichment(WithPrimary(MergeDefaults(patent_num), uspto), google)

----------------------------------------------------------------------------
(* Identifiers *)

US391881B2 == <<"U", "S", "3", "9", "1", "8", "8", "1", "B", "2">>
US9391881B2 == <<"U", "S", "9", "3", "9", "1", "8", "8", "1", "B", "2">>
US10154005B2 == <<"U", "S", "1", "0", "1", "5", "4", "0", "0", "5", "B", "2">>
US9294434B1 == <<"U", "S", "9", "2", "9", "4", "4", "3", "4", "B", "1">>
US939188B2 == <<"U", "S", "9", "3", "9", "1", "8", "8", "B", "2">>
EP2846498A1 == <<"E", "P", "2", "8", "4", "6", "4", "9", "8", "A", "1">>
US12034799B2 == <<"U", "S", "1", "2", "0", "3", "4", "7", "9", "9", "B", "2">>
US12034800B2 == <<"U", "S", "1", "2", "0", "3", "4", "8", "0", "0", "B", "2">>

----------------------------------------------------------------------------
(* Download helpers: enrichment/uspto_download.py *)

\* lines 15-27: the entries of the table for the identifiers of the model
PATENT_GRANT_DATES ==
    (US9294434B1 :> <<"2", "0", "1", "6", "-", "0", "3", "-", "2", "2">>) @@ (US9391881B2 :> <<"2", "0", "1", "6", "-", "0", "7", "-", "1", "2">>)
    @@ (US10154005B2 :> <<"2", "0", "1", "8", "-", "1", "2", "-", "1", "1">>)
    @@ (US12034799B2 :> <<"2", "0", "2", "4", "-", "0", "7", "-", "0", "9">>)
    @@ (US12034800B2 :> <<"2", "0", "2", "4", "-", "0", "7", "-", "0", "9">>)

\* lines 43-45: "ipg" + strftime('%y%m%d') + ".zip" of a YYYY-MM-DD date
grant_date_to_weekly_filename(grant_date) ==
    <<"i", "p", "g">> \o SubSeq(grant_date, 3, 4) \o SubSeq(grant_date, 6, 7)
        \o SubSeq(grant_date, 9, 10) \o <<".", "z", "i", "p">>

\* the weekly file of an identifier with a known grant date
FileOf(patent) == grant_date_to_weekly_filename(PATENT_GRANT_DATES[patent])

\* lines 58-71: the files needed, as the set of the dict's keys
RequiredFiles(patents) ==
    {FileOf(patents[i]) : i \in {j \in 1..Len(patents) :
                                    patents[j] \in DOMAIN PATENT_GRANT_DATES}}

\* lines 58-71: the dict, filename -> the patents of that file in the order
\* of the list
RECURSIVE get_required_files(_)
get_required_files(patents) ==
    IF patents = <<>> THEN <<>>
    ELSE LET files == get_required_files(SubSeq(patents, 1, Len(patents) - 1))
             patent == patents[Len(patents)]
         IN  IF patent \notin DOMAIN PATENT_GRANT_DATES THEN files
             ELSE IF FileOf(patent) \in DOMAIN files
                  THEN [files EXCEPT ![FileOf(patent)] = Append(@, patent)]
                  ELSE files @@ (FileOf(patent) :> <<patent>>)

\* the weekly files of the table
WeeklyFiles == {FileOf(patent) : patent \in DOMAIN PATENT_GRANT_DATES}

\* What one run of the download script does (uspto_bulk_download.py,
\* download_file, run at uspto_download.py line 105):
\*   "complete"  the whole archive is written; exit status 0
\*   "refused"   HTTP or URL error before the file is opened (lines 181,
\*               207-212) or the file is not listed (lines 133-153); exit
\*               status 1
\*   "broken"    the connection breaks after a part of the archive is written
\*               (lines 192-196); exit status 1
\*   "timeout"   the script is killed after 600 s, a part of the archive
\*               written
ScriptOutcomes == {"complete", "refused", "broken", "timeout"}

\* uspto_bulk_download.py lines 127-212: the downloads directory after a run
RunScript(filename, dir, outcome) ==
    [dir EXCEPT ![filename] = IF outcome = "complete" THEN "complete"
                              ELSE IF outcome = "refused" THEN @
                              ELSE "partial"]

\* os.path.exists(output_path)
Exists(dir, filename) == dir[filename] # "absent"

\* lines 88-115: what is returned, whether the script was run, and the
\* downloads directory afterwards
download_file(filename, dir, outcome) ==
    IF Exists(dir, filename)
    THEN [success |-> TRUE, ran |-> FALSE, dir |-> dir]
    ELSE LET after == RunScript(filename, dir, outcome)
         IN  [success |-> IF outcome = "timeout" THEN FALSE
                          ELSE IF outcome # "complete" THEN FALSE
                          ELSE Exists(after, filename),
              ran |-> TRUE, dir |-> after]

\* the downloads_dir argument, and os.path.join(downloads_dir, filename)
DownloadsDir == <<"d", "l">>
JoinPath(dir, filename) == dir \o <<"/">> \o filename

\* lines 160-172: the patents whose file is not in the downloads directory
MissingPatents(patents, files) ==
    {patents[i] : i \in {j \in 1..Len(patents) :
                            /\ patents[j] \in DOMAIN PATENT_GRANT_DATES
                            /\ FileOf(patents[j]) \notin files}}

----------------------------------------------------------------------------
(* Inputs *)

\* all sequences over S of length at most n
SeqsUpTo(S, n) == UNION {[1..k -> S] : k \in 0..n}
\* the members of a list
Range(list) == {list[i] : i \in 1..Len(list)}


\* file="US<number>-<date>.XML"
FileAttr(number) ==
    <<"U", "S">> \o number \o <<"-", "2", "0", "1", "6", "0", "7", "1", "2", ".", "X", "M", "L">>

LocIds == {US391881B2, US9391881B2, US10154005B2}
LocNumbers == {<<"0", "0", "3", "9", "1", "8", "8", "1">>, <<"0", "0", "3", "9", "1", "8", "8", "1", "0">>, <<"0", "9", "3", "9", "1", "8", "8", "1">>, <<"1", "0", "1", "5", "4", "0", "0", "5">>}
LocTokens == {OpenTag(FileAttr(n)) : n \in LocNumbers} \cup {CloseTag, TextTok}

LocIdle ==
    /\ xml_content = <<>> /\ patent_number = <<>>
    /\ locResult = None /\ locPc = "idle"
XmlIdle == xml_string = <<>> /\ xmlResult = None /\ xmlPc = "idle"
HtmlIdle ==
    /\ html = <<>> /\ htmlTarget = <<>>
    /\ htmlResult = None /\ htmlPc = "idle"
MergeOnce ==
    /\ uspto_before = uspto_data /\ google_before = google_data
    /\ uspto_data2 = NoDict /\ google_data2 = NoDict /\ merged2 = None
MergeIdle ==
    /\ uspto_data = NoDict /\ google_data = NoDict /\ mergeNumber = <<>>
    /\ merged = None /\ mergePc = "idle" /\ MergeOnce
MainIdle ==
    /\ args = <<>> /\ patent_numbers = <<>> /\ world = <<>> /\ disk = {}
    /\ uspto_results = <<>> /\ google_results = <<>>
    /\ output = None /\ mainPc = "idle"
FileIdle == grantDate = <<>> /\ weekly_filename = None /\ filePc = "idle"
DlIdle ==
    /\ dlNumbers = <<>> /\ required_files = None /\ remaining = <<>>
    /\ attempted = <<>> /\ patentToFile = <<>> /\ downloads = <<>>
    /\ downloadsBefore = <<>> /\ dlFilename = <<>> /\ dlReturned = None
    /\ dlRan = FALSE /\ dlPc = "idle"
ScrapeIdle ==
    /\ scrapeNumbers = <<>> /\ scrapeDelay = 0 /\ scrapeIndex = 0
    /\ scrapeResults = <<>> /\ timeline = <<>> /\ scrapePc = "idle"

----------------------------------------------------------------------------
(* The Locator on every small archive text *)

InitLocator ==
    /\ xml_content \in SeqsUpTo(LocTokens, MaxTokens)
    /\ patent_number \in LocIds
    /\ locResult = None
    /\ locPc = "call"
    /\ XmlIdle /\ HtmlIdle /\ MergeIdle /\ MainIdle /\ FileIdle
    /\ DlIdle /\ ScrapeIdle

FindPatentInXml ==
    /\ locPc = "call"
    /\ locResult' = find_patent_in_xml(xml_content, patent_number)
    /\ locPc' = "done"
    /\ UNCHANGED <<xml_content, patent_number, xmlVars, htmlVars, mergeVars, mainVars, fileVars, dlVars,
                   scrapeVars>>

NextLocator == FindPatentInXml
SpecLocator == InitLocator /\ [][NextLocator]_vars

\* the number embedded in a file attribute: the digits after "US"
EmbeddedNumber(file) == SubSeq(file, 3, 2 + DigitRun(file, 3))

\* the archive holds the identifier's document
DocumentPresent(content, patent_num) ==
    \E i \in 1..Len(content) :
        /\ content[i].k = "open"
        /\ EmbeddedNumber(content[i].file) = normalize_patent_number(patent_num)

\* C1: for an identifier whose document is not in the archive the Locator
\* returns None, and a returned span is never that of a document with another
\* embedded number (such as 003918810 for the target 00391881).
C1_NotFoundNeverWrongSpan ==
    locPc = "done" =>
        /\ ~DocumentPresent(xml_content, patent_number) => locResult = None
        /\ locResult # None =>
              EmbeddedNumber(locResult.v[1].file)
                  = normalize_patent_number(patent_number)

\* the tokens that are an opening tag matching the identifier
MatchingOpenTags(content, patent_num) ==
    {i \in 1..Len(content) :
        OpenMatches(content, i, normalize_patent_number(patent_num))}

\* C14: when an opening tag matches, the returned span starts at the first
\* such tag and ends with the nearest following closing tag; when no closing
\* tag follows it runs to the end of the archive text and is not None.
C14_SpanEndsAtNearestClose ==
    (locPc = "done" /\ MatchingOpenTags(xml_content, patent_number) # {}) =>
        /\ locResult # None
        /\ LET span == locResult.v
               opens == MatchingOpenTags(xml_content, patent_number)
           IN  \E start \in opens :
                  /\ \A o \in opens : start <= o
                  /\ start + Len(span) - 1 <= Len(xml_content)
                  /\ span = [i \in 1..Len(span) |-> xml_content[start + i - 1]]
                  /\ \A i \in 1..(Len(span) - 1) : span[i].k # "close"
                  /\ \/ span[Len(span)].k = "close"
                     \/ start + Len(span) - 1 = Len(xml_content)

\* a document is cut off after its first text: the span runs to the end
C14_Witness ==
    /\ locPc = "done"
    /\ patent_number = US9391881B2
    /\ xml_content = <<CloseTag, OpenTag(FileAttr(<<"0", "9", "3", "9", "1", "8", "8", "1">>)), TextTok>>
    /\ locResult = Str(SubSeq(xml_content, 2, 3))

----------------------------------------------------------------------------
(* The XML Extractor on small documents *)

ClaimText(has_ref, text) == [has_ref |-> has_ref, text |-> text]
Claim(num, texts) == [num |-> num, texts |-> texts]

IndependentMethod == <<"1.", "A", "method", "comprising", "steps">>
DependentOfClaim == <<"2.", "The", "method", "of", "claim", "1", "wherein">>
DependentAccording == <<"3.", "The", "system", "According", "To", "Claim", "2">>
OfClaimsPlural == <<"4.", "The", "method", "of", "claims", "1">>
AnApparatus == <<"5.", "An", "apparatus", "comprising">>
ASystem == <<"6.", "A", "system", "comprising">>
MediumClaim == <<"7.", "A", "non-transitory", "computer", "readable", "storage", "medium">>
ADevice == <<"8.", "A", "device", "comprising">>

\* the claim elements a document is built from
ClaimElems ==
    {Claim(<<"1">>, <<ClaimText(FALSE, IndependentMethod)>>),
     Claim(<<"2">>, <<ClaimText(TRUE, DependentOfClaim)>>),
     Claim(<<"2">>, <<ClaimText(FALSE, DependentOfClaim)>>),
     Claim(<<"3">>, <<ClaimText(FALSE, DependentAccording)>>),
     Claim(<<"4">>, <<ClaimText(TRUE, OfClaimsPlural)>>),
     Claim(<<"4">>, <<ClaimText(FALSE, OfClaimsPlural)>>),
     Claim(<<"x">>, <<ClaimText(FALSE, AnApparatus)>>),
     Claim(<<"0", "6">>, <<ClaimText(FALSE, ASystem),
                           ClaimText(TRUE, DependentOfClaim)>>),
     Claim(<<"7">>, <<ClaimText(FALSE, <<" ">> \o MediumClaim \o <<" ">>)>>),
     Claim(<<"8">>, <<ClaimText(FALSE, ADevice)>>),
     Claim(<<"9">>, <<>>)}

DateTexts == {None, Str(<<"2", "0", "1", "3">>), Str(<<"2", "0", "1", "3", "0", "5", "2", "4">>), Str(<<"2", "0", "1", "4", "0", "5", "2", "7">>)}
DateElems == {Absent} \cup {Elem(d) : d \in DateTexts}
ACME == <<"A", "C", "M", "E">>
NameElems(name) == {Absent, Elem(None), Elem(Str(name))}
AppNumElems == {Absent, Elem(None), Elem(Str(<<"1", "4", "2", "8", "7", "3", "4", "5">>)), Elem(Str(<<"1", "2", "3", "4", "5", "6">>))}
TitleElems == {Absent, Elem(None), Elem(Str(<<"R", "o", "u", "t", "i", "n", "g">>))}
AbstractElems == {Absent, Elem(Str(<<>>)), Elem(Str(<<" ", "T", "e", "x", "t", " ">>))}
Related(country, doc_number, kind) ==
    [country |-> country, doc_number |-> doc_number, kind |-> kind]
RelatedLists ==
    {<<>>,
     <<Related(Elem(Str(<<"U", "S">>)), Elem(Str(<<"2", "0", "1", "5", "0", "0", "0", "1", "2", "3", "4">>)), Elem(Str(<<"A", "1">>)))>>,
     <<Related(Elem(Str(<<"U", "S">>)), Elem(Str(<<"2", "0", "1", "5", "0", "0", "0", "1", "2", "3", "4">>)), Absent),
       Related(Absent, Elem(Str(<<"2", "0", "1", "5", "0", "0", "0", "1", "2", "3", "4">>)), Absent)>>,
     <<Related(Elem(None), Elem(Str(<<"2", "0", "1", "5", "0", "0", "0", "1", "2", "3", "4">>)), Elem(None))>>}

\* the well-formed document in which every field is missing
EmptyDoc ==
    [doctype |-> "none", wellformed |-> TRUE, title |-> Absent,
     abstract |-> Absent, pub_date |-> Absent, app_num |-> Absent,
     app_date |-> Absent, prov_date |-> Absent, orgname |-> Absent,
     first_name |-> Absent, last_name |-> Absent, related |-> <<>>,
     claims |-> <<>>]

\* documents that differ from EmptyDoc in one group of fields
XmlDocs ==
    {[EmptyDoc EXCEPT !.wellformed = w, !.claims = cs] :
        w \in BOOLEAN, cs \in SeqsUpTo(ClaimElems, MaxClaims)}
    \cup {[EmptyDoc EXCEPT !.wellformed = w, !.prov_date = p, !.app_date = a,
                           !.pub_date = g] :
        w \in BOOLEAN, p \in DateElems, a \in DateElems,
        g \in {Absent, Elem(Str(<<"2", "0", "1", "3", "0", "5", "2", "4">>))}}
    \cup {[EmptyDoc EXCEPT !.wellformed = w, !.orgname = o, !.first_name = f,
                           !.last_name = l] :
        w \in BOOLEAN, o \in NameElems(ACME), f \in NameElems(<<"J", "o", "h", "n">>),
        l \in NameElems(<<"S", "m", "i", "t", "h">>)}
    \cup {[EmptyDoc EXCEPT !.doctype = dt, !.wellformed = w, !.title = ti,
                           !.abstract = ab, !.app_num = n, !.related = r] :
        dt \in {"none", "plain", "subset"}, w \in BOOLEAN, ti \in TitleElems,
        ab \in AbstractElems, n \in AppNumElems, r \in RelatedLists}

InitXml ==
    /\ xml_string \in XmlDocs
    /\ xmlResult = None
    /\ xmlPc = "call"
    /\ LocIdle /\ HtmlIdle /\ MergeIdle /\ MainIdle /\ FileIdle
    /\ DlIdle /\ ScrapeIdle

ParsePatentXml ==
    /\ xmlPc = "call"
    /\ xmlResult' = parse_patent_xml(xml_string)
    /\ xmlPc' = "done"
    /\ UNCHANGED <<xml_string, locVars, htmlVars, mergeVars, mainVars, fileVars, dlVars,
                   scrapeVars>>

NextXml == ParsePatentXml
SpecXml == InitXml /\ [][NextXml]_vars

\* parse_patent_xml returned a record (it did not raise)
IsRecordResult(r) == "title" \in DOMAIN r

\* C5: a document that is still malformed after DOCTYPE stripping gives an
\* outcome the caller can tell from the record of the well-formed document
\* in which every field is missing.
C5_ParseErrorDistinguishable ==
    (xmlPc = "done" /\ ~ParsesOk(xml_string)) =>
        xmlResult # parse_patent_xml(EmptyDoc)

\* the candidate body of a claim element: its first direct claim-text child
HasBody(claim) == claim.texts # <<>>
BodyOf(claim) == claim.texts[1]

\* C6: every element of independent_claims comes from a claim whose body has
\* no claim-reference sub-element and whose text matches neither "of claim N"
\* nor "according to claim N", and the elements keep the document order of
\* their claim elements.
C6_IndependentClaimsOnly ==
    (xmlPc = "done" /\ ParsesOk(xml_string) /\ IsRecordResult(xmlResult)) =>
        LET res == xmlResult.independent_claims.v
            cl == xml_string.claims
        IN  \E f \in [1..Len(res) -> 1..Len(cl)] :
               /\ \A i, j \in 1..Len(res) : i < j => f[i] < f[j]
               /\ \A i \in 1..Len(res) :
                     /\ HasBody(cl[f[i]])
                     /\ ~BodyOf(cl[f[i]]).has_ref
                     /\ ~MatchesDependency(Strip(BodyOf(cl[f[i]]).text))
                     /\ res[i].text = Strip(BodyOf(cl[f[i]]).text)

\* a dependent claim was dropped in front of an independent one that was kept
C6_Witness ==
    /\ xmlPc = "done" /\ ParsesOk(xml_string)
    /\ Len(xml_string.claims) = 2
    /\ xml_string.claims[1] = Claim(<<"2">>, <<ClaimText(FALSE, DependentOfClaim)>>)
    /\ xml_string.claims[2] = Claim(<<"1">>, <<ClaimText(FALSE, IndependentMethod)>>)
    /\ Len(xmlResult.independent_claims.v) = 1
    /\ xmlResult.independent_claims.v[1].text = IndependentMethod

\* C7: priority_date is the provisional-application date when a valid one is
\* present, otherwise the filing date when a valid one is present (also when
\* a provisional date element exists but is malformed or empty), otherwise
\* absent.
C7_PriorityDateFallback ==
    (xmlPc = "done" /\ ParsesOk(xml_string) /\ IsRecordResult(xmlResult)) =>
        xmlResult.priority_date =
            IF DateOf(xml_string.prov_date) # None
            THEN DateOf(xml_string.prov_date)
            ELSE DateOf(xml_string.app_date)

\* an element that is present and holds text
HasText(elem) == elem.e /\ elem.text # None /\ elem.text # Str(<<>>)

\* C19: assignee_original is the organization name when a non-empty one is
\* present, otherwise "First Last" when both name parts are present,
\* otherwise absent; an organization-name element without text does not
\* block the fallback and no value holds a missing name part.
C19_AssigneeOriginalFallback ==
    (xmlPc = "done" /\ ParsesOk(xml_string) /\ IsRecordResult(xmlResult)) =>
        xmlResult.assignee_original =
            IF HasText(xml_string.orgname) THEN xml_string.orgname.text
            ELSE IF HasText(xml_string.first_name) /\ HasText(xml_string.last_name)
                 THEN Str(xml_string.first_name.text.v \o <<" ">>
                          \o xml_string.last_name.text.v)
                 ELSE None

\* the claim opens with a number, an article and one of the nouns
OpensWith(text, nouns) ==
    /\ Len(text) >= 3
    /\ text[1] \in NumDot
    /\ Lower(text[2]) \in {"a", "an"}
    /\ Lower(text[3]) \in nouns

\* the type the ordered leading-phrase patterns give
LeadingPhraseType(text) ==
    IF OpensWith(text, {"system", "apparatus", "device"}) THEN "system"
    ELSE IF OpensWith(text, {"method", "process"}) THEN "method"
    ELSE IF MatchesMedium(text) THEN "medium"
    ELSE "method"

\* C20: the type of an independent claim is that of the first leading-phrase
\* pattern that matches, system|apparatus|device, then method|process, then
\* (non-transitory) computer ... medium|storage, and method when none does,
\* so that "An apparatus" and "A device" are systems; a num attribute that
\* is not numeric gives the number 0.
C20_ClaimTypeAndNumber ==
    (xmlPc = "done" /\ ParsesOk(xml_string) /\ IsRecordResult(xmlResult)) =>
        LET res == xmlResult.independent_claims.v
            kept == SelectSeq(xml_string.claims, ClaimIsKept)
        IN  /\ Len(res) = Len(kept)
            /\ \A i \in 1..Len(res) :
                  /\ res[i].type = LeadingPhraseType(res[i].text)
                  /\ res[i].number =
                        IF IsDigitStr(kept[i].num) THEN ParseInt(kept[i].num) ELSE 0

----------------------------------------------------------------------------
(* The HTML Extractor on small pages *)

Date2034 == <<"2", "0", "3", "4", "-", "0", "5", "-", "2", "5">>
Date2033 == <<"2", "0", "3", "3", "-", "0", "1", "-", "0", "1">>
Date2035 == <<"2", "0", "3", "5", "-", "1", "2", "-", "3", "1">>
BadDate == <<"2", "0", "3", "4", "-", "5", "-", "2", "5">>

\* pages that differ in the tokens one field reads
CiteTokens ==
    {H2("Cited By", PyInt(3)), H2("Cited By", PyInt(2)), H2("Cited By", None),
     PageText("Cited By", PyInt(5)),
     H2("Families Citing this family", PyInt(4)),
     PageText("Families Citing this family", PyInt(7)),
     H2("Similar Documents", None)}
ExpirationTokens ==
    {ExpAttr(Date2034), ExpAttr(BadDate), IfiExp(Date2033), IfiExp(BadDate),
     TimeTok(Date2035), TimeTok(BadDate),
     SpanTok("Anticipated expiration"), SpanTok("Adjusted expiration"),
     SpanTok("Priority date")}
FamilyTokens ==
    {H2("Family Applications", PyInt(2)), H2("Also Published As", None),
     H2("Priority Applications", PyInt(1)), SectionEnd,
     Pub(US9391881B2), Pub(US10154005B2), Pub(US9294434B1), Pub(US939188B2)}

\* the assignee names of citing patents: two spellings of one name, seven
\* more names of four characters, and one of three
CitingNames ==
    << <<"A", "C", "M", "E">>, <<"A", "c", "m", "e">>, <<"B", "E", "T", "A">>,
       <<"C", "I", "S", "C">>, <<"D", "E", "L", "L">>, <<"E", "B", "A", "Y">>,
       <<"F", "O", "R", "D">>, <<" ", "G", "o", "o", "g", " ">>,
       <<"I", "N", "T", "L">>, <<"I", "B", "M">> >>
CitingNameSet == {CitingNames[i] : i \in 1..Len(CitingNames)}

\* the forward-reference rows of the names picked, in the order of CitingNames
RECURSIVE ForwardRows(_, _)
ForwardRows(picked, i) ==
    IF i > Len(CitingNames) THEN <<>>
    ELSE (IF CitingNames[i] \in picked
          THEN <<FwdRef, AssigneeOriginal(TRUE, CitingNames[i])>> ELSE <<>>)
         \o ForwardRows(picked, i + 1)

\* the rows of a "Families Citing" table; marked: each row carries a
\* forwardReferences attribute of its own
RECURSIVE FamilyRows(_, _)
FamilyRows(names, marked) ==
    IF names = <<>> THEN <<>>
    ELSE (IF marked THEN <<FwdRef>> ELSE <<>>)
         \o <<AssigneeOriginal(TRUE, Head(names))>>
         \o FamilyRows(Tail(names), marked)

\* pages with a "Cited By" table of few or many rows and a "Families Citing"
\* section of at most MaxFamCiting rows, closed by </article> or cut off
CitingPages ==
    {ForwardRows(picked, 1)
       \o (IF fam = <<>> THEN <<>>
           ELSE <<H2("Families Citing this family", PyInt(Len(fam)))>>
                \o FamilyRows(fam, marked)
                \o (IF closed THEN <<ArticleEnd>> ELSE <<>>)) :
       picked \in {S \in SUBSET CitingNameSet :
                      Cardinality(S) <= 1 \/ Cardinality(S) >= 8},
       fam \in SeqsUpTo(CitingNameSet, MaxFamCiting),
       marked \in BOOLEAN, closed \in BOOLEAN}

\* pieces of the content of a <dd>
Tag == [p |-> "tag"]
Nl == [p |-> "nl"]
Listed == [p |-> "listed"]
GoogleHasNot == [p |-> "google"]
Word(s) == [p |-> "word", s |-> s]
DdContents ==
    {<<>>, <<Tag>>,
     <<Word(<<"A", "B">>)>>,
     <<Word(<<"A">>), Tag, Word(<<"B">>)>>,
     <<Tag, Word(ACME), Tag>>,
     <<Word(ACME), Word(<<"I", "n", "c">>), Listed, Word(<<"m", "a", "y">>)>>,
     <<Listed, Word(<<"m", "a", "y">>), Nl, Word(ACME)>>,
     <<Word(<<"A">>), GoogleHasNot, Word(ACME), Nl, Tag>>}
AssigneeTokens ==
    {LabelTok("Current Assignee"), LabelTok("current assignee"),
     LabelTok("Original Assignee"),
     AssigneeOriginal(TRUE, <<" ", "B", "E", "T", "A">>),
     AssigneeOriginal(TRUE, <<"D", "E", "L", "L">>),
     AssigneeOriginal(TRUE, <<>>),
     AssigneeOriginal(FALSE, <<"F", "O", "R", "D">>)}
    \cup {DdTok(c) : c \in DdContents}

Pages ==
    SeqsUpTo(CiteTokens, MaxPage) \cup SeqsUpTo(ExpirationTokens, MaxPage)
    \cup SeqsUpTo(FamilyTokens, MaxFamilyPage)
    \cup CitingPages
    \cup SeqsUpTo(AssigneeTokens, MaxPage)

InitHtml ==
    /\ html \in Pages
    /\ htmlTarget = US9391881B2
    /\ htmlResult = None
    /\ htmlPc = "call"
    /\ LocIdle /\ XmlIdle /\ MergeIdle /\ MainIdle /\ FileIdle
    /\ DlIdle /\ ScrapeIdle

ParseGooglePatentsHtml ==
    /\ htmlPc = "call"
    /\ htmlResult' = parse_google_patents_html(html, htmlTarget)
    /\ htmlPc' = "done"
    /\ UNCHANGED <<html, htmlTarget, locVars, xmlVars, mergeVars, mainVars, fileVars, dlVars,
                   scrapeVars>>

NextHtml == ParseGooglePatentsHtml
SpecHtml == InitHtml /\ [][NextHtml]_vars

\* C8: expiration is the value of the first pattern that matches, in the
\* order (1) expiration datetime attribute, (2) ifiExpiration field, (3) dated
\* event followed by an "Anticipated expiration" or "Adjusted expiration"
\* label; it is absent exactly when none of the three matches.
C8_FirstPatternWins ==
    htmlPc = "done" =>
        LET p1 == ExpAttrHits(html)
            p2 == IfiExpHits(html)
            p3 == EventHits(html)
        IN  /\ p1 # {} => htmlResult.expiration = Str(html[Least(p1)].d)
            /\ (p1 = {} /\ p2 # {}) =>
                  htmlResult.expiration = Str(html[Least(p2)].d)
            /\ (p1 = {} /\ p2 = {} /\ p3 # {}) =>
                  htmlResult.expiration = Str(html[Least(p3)].d)
            /\ (htmlResult.expiration = None) <=> (p1 = {} /\ p2 = {} /\ p3 = {})

\* the heuristic pattern and a structured one both match, with other dates
C8_Witness ==
    /\ htmlPc = "done"
    /\ ExpAttrHits(html) = {} /\ IfiExpHits(html) # {} /\ EventHits(html) # {}
    /\ Least(EventHits(html)) < Least(IfiExpHits(html))
    /\ htmlResult.expiration = Str(Date2033)

\* the sum of the counts of the tokens of page whose index is in S
RECURSIVE SumCounts(_, _)
SumCounts(page, S) ==
    IF S = {} THEN 0
    ELSE LET i == CHOOSE j \in S : TRUE
         IN  page[i].n.v + SumCounts(page, S \ {i})

\* C9: forward_cites is the sum of the counts of all "Cited By (N)" sections
\* plus the count of a single "Families Citing this family (N)" section when
\* present; two "Cited By (3)" sections alone give 6, a page with neither 0.
C9_ForwardCitesSum ==
    htmlPc = "done" =>
        LET cited == {i \in 1..Len(html) :
                         /\ html[i].k = "h2" /\ html[i].title = "Cited By"
                         /\ html[i].n # None}
            fams == {i \in 1..Len(html) :
                         /\ html[i].k \in {"h2", "text"}
                         /\ html[i].title = "Families Citing this family"
                         /\ html[i].n # None}
        IN  /\ htmlResult.forward_cites =
                  PyInt(SumCounts(html, cited)
                        + (IF fams = {} THEN 0 ELSE html[Least(fams)].n.v))
            /\ html = <<H2("Cited By", PyInt(3)), H2("Cited By", PyInt(3))>>
                  => htmlResult.forward_cites = PyInt(6)
            /\ (cited = {} /\ fams = {}) => htmlResult.forward_cites = PyInt(0)

\* two "Cited By (3)" sections and no "Families Citing" section
C9_Witness ==
    /\ htmlPc = "done"
    /\ html = <<H2("Cited By", PyInt(3)), H2("Cited By", PyInt(3))>>
    /\ htmlResult.forward_cites = PyInt(6)

\* the identifiers found in the three family sections of a page
FamilySectionPubs(page) ==
    PubsIn(FamilyApplicationsOf(page).body)
    \cup PubsIn(AlsoPublishedOf(page).body)
    \cup PubsIn(PriorityApplicationsOf(page).body)

\* C10: simple_family_members is sorted, has no duplicates, holds the union
\* of the identifiers of the family-applications, "also published as" and
\* priority-applications sections, and never holds the target identifier.
C10_FamilySortedWithoutSelf ==
    htmlPc = "done" =>
        LET fam == htmlResult.simple_family_members.v
        IN  /\ \A i \in 1..(Len(fam) - 1) : StrLess(fam[i], fam[i + 1])
            /\ {fam[i] : i \in 1..Len(fam)} = FamilySectionPubs(html) \ {htmlTarget}
            /\ \A i \in 1..Len(fam) : fam[i] # htmlTarget

\* the target stands in a family section between two other identifiers that
\* are listed against the sorted order
C10_Witness ==
    /\ htmlPc = "done"
    /\ htmlTarget \in FamilySectionPubs(html)
    /\ Len(html) = 5
    /\ html[2] = Pub(US9294434B1)
    /\ html[4] = Pub(US10154005B2)
    /\ htmlResult.simple_family_members =
           List(<<US10154005B2, US9294434B1>>)

\* the cleaned name of an assigneeOriginal element
CitingNameAt(page, j) == ToUpper(Strip(page[j].s))

\* the positions of the assignee names that close a forward-reference entry:
\* a forwardReferences attribute precedes the name with no other name between
ForwardEntryNames(page) ==
    {j \in 1..Len(page) :
        /\ page[j].k = "assigneeOriginal" /\ page[j].s # <<>>
        /\ \E i \in 1..(j - 1) :
              /\ page[i].k = "fwdRef"
              /\ \A m \in (i + 1)..(j - 1) :
                    ~(page[m].k = "assigneeOriginal" /\ page[m].s # <<>>)}

\* the positions of the assignee names inside the "Families Citing" section
FamiliesCitingNames(page) ==
    LET heads == {i \in 1..Len(page) : IsFamiliesCitingHeader(page[i])}
        stops == IF heads = {} THEN {}
                 ELSE {j \in (Least(heads) + 1)..Len(page) :
                          page[j].k \in {"h2", "articleEnd"}}
    IN  IF stops = {} THEN {}
        ELSE {j \in (Least(heads) + 1)..(Least(stops) - 1) :
                 page[j].k = "assigneeOriginal" /\ page[j].s # <<>>}

\* the occurrences of names in the two places: <<place, position, name>>
CitingOccurrences(page) ==
    {<<"forward", j, CitingNameAt(page, j)>> : j \in ForwardEntryNames(page)}
    \cup {<<"families", j, CitingNameAt(page, j)>> : j \in FamiliesCitingNames(page)}

\* "NAME (count)"
Rendered(name, count) ==
    Str(name \o <<" ", "(">> \o IntToChars(count) \o <<")">>)

\* C11: top_citing_assignees holds at most 7 entries "NAME (count)", count
\* being the occurrences of NAME in the forward-reference entries and in the
\* "Families Citing" section added up; names under 4 characters are left
\* out; the entries are in descending order of count, ties alphabetical; and
\* no name that ranks before a kept one is omitted.
C11_TopCitingAssignees ==
    (htmlPc = "done" /\ htmlResult.top_citing_assignees # None) =>
        LET res == htmlResult.top_citing_assignees.v
            occs == CitingOccurrences(html)
            tallied == {o[3] : o \in {x \in occs : Len(x[3]) >= 4}}
            Count(n) == Cardinality({o \in occs : o[3] = n})
            RanksBefore(a, b) ==
                \/ Count(a) > Count(b)
                \/ Count(a) = Count(b) /\ StrLess(a, b)
            NameOf(i) == CHOOSE n \in tallied : res[i] = Rendered(n, Count(n))
        IN  /\ Len(res) <= 7
            /\ \A i \in 1..Len(res) :
                  \E n \in tallied : res[i] = Rendered(n, Count(n))
            /\ \A i, j \in 1..Len(res) :
                  i < j => RanksBefore(NameOf(i), NameOf(j))
            /\ \A n \in tallied \ {NameOf(i) : i \in 1..Len(res)} :
                  \A i \in 1..Len(res) : ~RanksBefore(n, NameOf(i))

\* eight names are tallied, one of them twice and under two spellings; seven
\* are kept, the one counted twice first, and the last in the alphabet is
\* dropped
C11_Witness ==
    /\ htmlPc = "done"
    /\ Cardinality({o[3] : o \in {x \in CitingOccurrences(html) :
                                       Len(x[3]) >= 4}}) = 8
    /\ htmlResult.top_citing_assignees # None
    /\ Len(htmlResult.top_citing_assignees.v) = 7
    /\ htmlResult.top_citing_assignees.v[1]
           = Str(<<"A", "C", "M", "E", " ", "(", "2", ")">>)
    /\ htmlResult.top_citing_assignees.v[2]
           = Str(<<"D", "E", "L", "L", " ", "(", "2", ")">>)
    /\ \A i \in 1..7 :
          htmlResult.top_citing_assignees.v[i]
              # Str(<<"I", "N", "T", "L", " ", "(", "1", ")">>)

\* the words of a <dd> that are neither markup nor part of a disclaimer: a
\* disclaimer runs from its opening words to the end of its line
RemainingWords(content) ==
    LET keep == {i \in 1..Len(content) :
                    /\ content[i].p = "word"
                    /\ ~\E d \in 1..(i - 1) :
                          /\ content[d].p \in {"listed", "google"}
                          /\ \A m \in (d + 1)..(i - 1) : content[m].p # "nl"}
        RECURSIVE InOrder(_)
        InOrder(S) ==
            IF S = {} THEN <<>>
            ELSE <<content[Least(S)].s>> \o InOrder(S \ {Least(S)})
    IN  InOrder(keep)

\* words separated by single spaces
RECURSIVE SpaceSeparated(_)
SpaceSeparated(words) ==
    IF words = <<>> THEN <<>>
    ELSE words[1] \o (IF Len(words) = 1 THEN <<>>
                      ELSE <<" ">> \o SpaceSeparated(Tail(words)))

\* the cleaned text of the "Current Assignee" block: a record with found
\* FALSE when the page has no such block
CleanedCurrentAssignee(page) ==
    LET labels == {i \in 1..Len(page) : IsCurrentAssigneeLabel(page[i])}
        blocks == {j \in 1..Len(page) :
                      page[j].k = "dd" /\ \E i \in labels : i < j}
    IN  IF blocks = {} THEN [found |-> FALSE, text |-> <<>>]
        ELSE [found |-> TRUE,
              text |-> SpaceSeparated(RemainingWords(page[Least(blocks)].content))]

\* the "original assignee" structured fields of the page: the positions of the
\* <span itemprop="assigneeOriginal"> elements that hold text
OriginalAssigneeFields(page) ==
    {i \in 1..Len(page) :
        page[i].k = "assigneeOriginal" /\ page[i].span /\ page[i].s # <<>>}

\* C12: assignee_current is the cleaned text of the "Current Assignee" block
\* only when that text is longer than 2 characters; when the block is
\* missing or its text rejected it is the "original assignee" structured
\* field when the page has one, and absent otherwise.
C12_AssigneeCurrentFallback ==
    htmlPc = "done" =>
        LET block == CleanedCurrentAssignee(html)
            fields == OriginalAssigneeFields(html)
        IN  htmlResult.assignee_current =
                IF block.found /\ Len(block.text) > 2 THEN Str(block.text)
                ELSE IF fields # {} THEN Str(Strip(html[Least(fields)].s))
                ELSE None

\* the block's text "AB" is rejected and the original assignee is taken
C12_Witness ==
    /\ htmlPc = "done"
    /\ Len(html) = 3
    /\ html[1] = LabelTok("Current Assignee")
    /\ html[2] = DdTok(<<Word(<<"A", "B">>)>>)
    /\ html[3] = AssigneeOriginal(TRUE, <<" ", "B", "E", "T", "A">>)
    /\ htmlResult.assignee_current = Str(<<"B", "E", "T", "A">>)

----------------------------------------------------------------------------
(* The Merger on small records *)

NEWCO == <<"N", "E", "W", "C", "O">>
Routing == <<"R", "o", "u", "t", "i", "n", "g">>

PrimaryWith(assignee) ==
    Dict([title |-> Str(Routing), abstract |-> Str(<<"T", "e", "x", "t">>),
          grant_date |-> Str(<<"2", "0", "1", "6", "-", "0", "7", "-", "1", "2">>), priority_date |-> Str(<<"2", "0", "1", "3", "-", "0", "5", "-", "2", "4">>),
          application_number |-> Str(<<"1", "4", "/", "2", "8", "7", "3", "4", "5">>),
          assignee_original |-> assignee,
          independent_claims |->
              List(<<[number |-> 1, type |-> "method", text |-> IndependentMethod]>>),
          application_family_members |-> List(<<<<"U", "S", "2", "0", "1", "5", "0", "0", "0", "1", "2", "3", "4", "A", "1">>>>)])

EnrichmentWith(assignee) ==
    Dict([forward_cites |-> PyInt(6),
          top_citing_assignees |-> List(<<Str(<<"I", "B", "M", " ", "C", "O", "R", "P", " ", "(", "2", ")">>)>>),
          simple_family_members |-> List(<<US10154005B2>>),
          expiration |-> Str(Date2034),
          assignee_current |-> assignee])

UsptoInputs ==
    {NoDict, Dict(<<>>), PrimaryWith(Str(ACME)), PrimaryWith(None),
     PrimaryWith(Str(<<>>)), Dict([title |-> Str(Routing)]),
     Dict(parse_patent_xml(EmptyDoc))}
GoogleInputs ==
    {NoDict, Dict(<<>>), EnrichmentWith(Str(NEWCO)), EnrichmentWith(None),
     EnrichmentWith(Str(<<>>)), Dict([forward_cites |-> PyInt(5)]),
     Dict(parse_google_patents_html(<<>>, US9391881B2))}

InitMerge ==
    /\ uspto_data \in UsptoInputs
    /\ google_data \in GoogleInputs
    /\ mergeNumber \in {US9391881B2, US10154005B2}
    /\ merged = None
    /\ mergePc = "call"
    /\ MergeOnce
    /\ LocIdle /\ XmlIdle /\ HtmlIdle /\ MainIdle /\ FileIdle
    /\ DlIdle /\ ScrapeIdle

\* lines 120-166 with the assignee taken out of the Primary Record by
\* uspto_data.pop("assignee_original", None) in place of .get
MergePatentDataPopping ==
    /\ mergePc = "call"
    /\ merged' = merge_patent_data(uspto_data, google_data, mergeNumber)
    /\ uspto_data' =
           IF ~uspto_data.none /\ "assignee_original" \in DOMAIN uspto_data.d
           THEN Dict([k \in DOMAIN uspto_data.d \ {"assignee_original"} |->
                         uspto_data.d[k]])
           ELSE uspto_data
    /\ mergePc' = "done"
    /\ UNCHANGED <<google_data, mergeNumber, uspto_before, google_before,
                   uspto_data2, google_data2, merged2,
                   locVars, xmlVars, htmlVars, mainVars, fileVars, dlVars,
                   scrapeVars>>
\* lines 120-166: the arguments are only read
MergePatentData ==
    /\ mergePc = "call"
    /\ merged' = merge_patent_data(uspto_data, google_data, mergeNumber)
    /\ mergePc' = "done"
    /\ UNCHANGED <<uspto_data, google_data, mergeNumber, uspto_before,
                   google_before, uspto_data2, google_data2, merged2,
                   locVars, xmlVars, htmlVars, mainVars, fileVars, dlVars,
                   scrapeVars>>

NextMerge == MergePatentData
SpecMerge == InitMerge /\ [][NextMerge]_vars

\* a record argument is absent: None or empty
RecordAbsent(a) == a.none \/ DOMAIN a.d = {}
\* the field k of a record argument, None when the record or the field is absent
FieldOf(a, k) == IF ~RecordAbsent(a) /\ k \in DOMAIN a.d THEN a.d[k] ELSE None

\* C2: assignee_current is the Enrichment Record's current assignee when that
\* is non-empty, otherwise the Primary Record's assignee_original, otherwise
\* null; an empty enrichment assignee counts as absent, and a Primary Record
\* with assignee ACME and no Enrichment Record gives ACME.
C2_AssigneeCurrentPrecedence ==
    mergePc = "done" =>
        LET e == FieldOf(google_data, "assignee_current")
            o == FieldOf(uspto_data, "assignee_original")
        IN  /\ merged.assignee_current =
                  IF e # None /\ e # Str(<<>>) THEN e ELSE o
            /\ (RecordAbsent(google_data) /\ o = Str(ACME))
                  => merged.assignee_current = Str(ACME)
            /\ (RecordAbsent(uspto_data) /\ (e = None \/ e = Str(<<>>)))
                  => merged.assignee_current = None

\* an empty enrichment assignee beside the primary assignee ACME
C2_Witness ==
    /\ mergePc = "done"
    /\ ~RecordAbsent(google_data)
    /\ FieldOf(google_data, "assignee_current") = Str(<<>>)
    /\ FieldOf(uspto_data, "assignee_original") = Str(ACME)
    /\ merged.assignee_current = Str(ACME)

\* C4: with both records absent (None or empty) merge returns the record
\* whose number is the identifier, forward_cites is 0, the three list fields
\* are empty and every other field is null.
C4_BothAbsentDefaults ==
    (mergePc = "done" /\ RecordAbsent(uspto_data) /\ RecordAbsent(google_data)) =>
        merged = [number |-> mergeNumber, title |-> None, grant_date |-> None,
                  priority_date |-> None, expiration |-> None,
                  application_number |-> None, assignee_original |-> None,
                  assignee_current |-> None, forward_cites |-> PyInt(0),
                  top_citing_assignees |-> None, abstract |-> None,
                  independent_claims |-> List(<<>>),
                  application_family_members |-> List(<<>>),
                  simple_family_members |-> List(<<>>)]

\* an empty Primary Record and no Enrichment Record
C4_Witness ==
    /\ mergePc = "done"
    /\ uspto_data = Dict(<<>>) /\ google_data = NoDict
    /\ merged.number = mergeNumber /\ merged.forward_cites = PyInt(0)

----------------------------------------------------------------------------
(* The Merger called twice *)

\* a second call for the same identifier with other records
InitMergePair ==
    /\ uspto_data \in UsptoInputs
    /\ google_data \in GoogleInputs
    /\ uspto_data2 \in UsptoInputs
    /\ google_data2 \in GoogleInputs
    /\ uspto_before = uspto_data /\ google_before = google_data
    /\ mergeNumber = US9391881B2
    /\ merged = None /\ merged2 = None
    /\ mergePc = "call"
    /\ LocIdle /\ XmlIdle /\ HtmlIdle /\ MainIdle /\ FileIdle
    /\ DlIdle /\ ScrapeIdle

MergeOtherRecords ==
    /\ mergePc = "done"
    /\ merged2' = merge_patent_data(uspto_data2, google_data2, mergeNumber)
    /\ mergePc' = "done2"
    /\ UNCHANGED <<uspto_data, google_data, mergeNumber, merged, uspto_before,
                   google_before, uspto_data2, google_data2,
                   locVars, xmlVars, htmlVars, mainVars, fileVars, dlVars,
                   scrapeVars>>

NextMergePair == MergePatentData \/ MergeOtherRecords
SpecMergePair == InitMergePair /\ [][NextMergePair]_vars

PrimaryFields ==
    {"title", "abstract", "grant_date", "priority_date", "application_number",
     "assignee_original", "independent_claims", "application_family_members"}
EnrichmentFields ==
    {"forward_cites", "top_citing_assignees", "simple_family_members",
     "expiration"}

\* C17: for one identifier, two merges of the same Primary Record agree on
\* every primary field whatever the Enrichment Records are, and two merges
\* of the same Enrichment Record agree on forward_cites,
\* top_citing_assignees, simple_family_members and expiration whatever the
\* Primary Records are.
C17_SourcesDoNotInterfere ==
    mergePc = "done2" =>
        /\ uspto_data = uspto_data2 =>
               \A k \in PrimaryFields : merged[k] = merged2[k]
        /\ google_data = google_data2 =>
               \A k \in EnrichmentFields : merged[k] = merged2[k]

\* one Primary Record merged with an Enrichment Record naming NEWCO and with
\* none: the current assignees differ, the original assignee is ACME in both
C17_Witness ==
    /\ mergePc = "done2"
    /\ uspto_data = PrimaryWith(Str(ACME)) /\ uspto_data2 = uspto_data
    /\ google_data = EnrichmentWith(Str(NEWCO)) /\ google_data2 = NoDict
    /\ merged.assignee_current = Str(NEWCO)
    /\ merged2.assignee_current = Str(ACME)
    /\ merged.assignee_original = Str(ACME)
    /\ merged2.assignee_original = Str(ACME)

\* a second call with the very records of the first
MergeSameRecords ==
    /\ mergePc = "done"
    /\ merged2' = merge_patent_data(uspto_data, google_data, mergeNumber)
    /\ mergePc' = "done2"
    /\ UNCHANGED <<uspto_data, google_data, mergeNumber, merged, uspto_before,
                   google_before, uspto_data2, google_data2,
                   locVars, xmlVars, htmlVars, mainVars, fileVars, dlVars,
                   scrapeVars>>

NextMergeTwice == MergePatentData \/ MergeSameRecords
SpecMergeTwice == InitMerge /\ [][NextMergeTwice]_vars

----------------------------------------------------------------------------
(* The weekly file name of every grant date of two years *)

IsLeap(y) == (y % 4 = 0 /\ y % 100 # 0) \/ y % 400 = 0
DaysInMonth(y, m) ==
    IF m = 2 THEN (IF IsLeap(y) THEN 29 ELSE 28)
    ELSE IF m \in {4, 6, 9, 11} THEN 30 ELSE 31
DatesOf(years) ==
    {dt \in [y : years, m : 1..12, d : 1..31] : dt.d <= DaysInMonth(dt.y, dt.m)}

\* the years of the calendar, and those the grant dates are drawn from
CalendarYears == 2015..2018
GrantYears == 2016..2017

\* "%02d" and "%04d"
DigitChar(n) == Alphabet[8 + n]
TwoDigits(n) == <<DigitChar(n \div 10), DigitChar(n % 10)>>
FourDigits(n) == TwoDigits(n \div 100) \o TwoDigits(n % 100)
\* "YYYY-MM-DD"
IsoDate(dt) ==
    FourDigits(dt.y) \o <<"-">> \o TwoDigits(dt.m) \o <<"-">> \o TwoDigits(dt.d)
\* the date a "YYYY-MM-DD" string denotes
DateFromIso(str) ==
    [y |-> ParseInt(SubSeq(str, 1, 4)), m |-> ParseInt(SubSeq(str, 6, 7)),
     d |-> ParseInt(SubSeq(str, 9, 10))]

InitFile ==
    /\ grantDate \in {IsoDate(dt) : dt \in DatesOf(GrantYears)}
    /\ weekly_filename = None
    /\ filePc = "call"
    /\ LocIdle /\ XmlIdle /\ HtmlIdle /\ MergeIdle /\ MainIdle
    /\ DlIdle /\ ScrapeIdle

GrantDateToWeeklyFilename ==
    /\ filePc = "call"
    /\ weekly_filename' = Str(grant_date_to_weekly_filename(grantDate))
    /\ filePc' = "done"
    /\ UNCHANGED <<grantDate, locVars, xmlVars, htmlVars, mergeVars, mainVars,
                   dlVars, scrapeVars>>

NextFile == GrantDateToWeeklyFilename
SpecFile == InitFile /\ [][NextFile]_vars

\* the days from the first day of the calendar to dt
RECURSIVE DaysBeforeMonth(_, _)
DaysBeforeMonth(y, m) ==
    IF m = 1 THEN 0 ELSE DaysBeforeMonth(y, m - 1) + DaysInMonth(y, m - 1)
RECURSIVE DaysBeforeYear(_)
DaysBeforeYear(y) ==
    IF y \notin CalendarYears \/ y - 1 \notin CalendarYears THEN 0
    ELSE DaysBeforeYear(y - 1) + (IF IsLeap(y - 1) THEN 366 ELSE 365)
DayNumber(dt) == DaysBeforeYear(dt.y) + DaysBeforeMonth(dt.y, dt.m) + dt.d - 1

\* Monday is 0; the first day of the calendar, 2015-01-01, was a Thursday
Weekday(dt) == (DayNumber(dt) + 3) % 7

\* the Tuesday of the week, Monday to Sunday, that holds dt
TuesdayOfWeek(dt) ==
    LET n == DayNumber(dt) - Weekday(dt) + 1
    IN  CHOOSE t \in DatesOf({dt.y - 1, dt.y, dt.y + 1}) : DayNumber(t) = n

\* "ipg" + YYMMDD + ".zip"
WeeklyName(dt) ==
    <<"i", "p", "g">> \o TwoDigits(dt.y % 100) \o TwoDigits(dt.m)
        \o TwoDigits(dt.d) \o <<".", "z", "i", "p">>

\* C13: the filename of a grant date is "ipg" + YYMMDD + ".zip" with YYMMDD
\* the Tuesday of the grant date's week, so that the grant dates of one week
\* share a filename.
C13_TuesdayOfTheWeek ==
    filePc = "done" =>
        weekly_filename = Str(WeeklyName(TuesdayOfWeek(DateFromIso(grantDate))))

----------------------------------------------------------------------------
(* The pipeline driver: enrichment/enrich_patents.py, main *)

\* What the outside world does to one identifier of the batch:
\*   "none"          nothing fails
\*   "file_missing"  its weekly file is not in the downloads directory and
\*                   cannot be downloaded
\*   "unreadable"    its weekly file is not a readable archive
\*   "not_located"   its document is not in the archive
\*   "parse_error"   its document is malformed
\*   "fetch_failed"  its page cannot be fetched
FailureKinds ==
    {"none", "file_missing", "unreadable", "not_located", "parse_error",
     "fetch_failed"}

PipelineIds == {US9294434B1, US9391881B2, US391881B2}

\* the document of an identifier in its archive
DocumentOf(patent, kind) ==
    [EmptyDoc EXCEPT
        !.wellformed = (kind # "parse_error"),
        !.title = Elem(Str(Routing)),
        !.orgname = Elem(Str(ACME)),
        !.pub_date = Elem(Str(<<"2", "0", "1", "6", "0", "7", "1", "2">>)),
        !.claims = <<Claim(<<"1">>, <<ClaimText(FALSE, IndependentMethod)>>)>>]

\* the page of an identifier
PageOf(patent) ==
    <<H2("Cited By", PyInt(3)), TimeTok(Date2034),
      SpanTok("Anticipated expiration")>>

\* enrich_patents.py lines 109-117
build_patent_to_file_mapping(patents) ==
    LET known == {patents[i] : i \in 1..Len(patents)} \cap DOMAIN PATENT_GRANT_DATES
    IN  [pn \in known |-> FileOf(pn)]

\* xml_parser.extract_all_patents: one Primary Record per identifier whose
\* document is read and located; an identifier whose file is missing or
\* unreadable, or whose document is not located, gets no entry
extract_all_patents(patent_to_file, files, w) ==
    LET got == {pn \in DOMAIN patent_to_file :
                   /\ patent_to_file[pn] \in files
                   /\ w[pn] \notin {"unreadable", "not_located"}}
    IN  [pn \in got |-> parse_patent_xml(DocumentOf(pn, w[pn]))]

\* google_patents.py lines 205-211 with forward_cites left None
ScrapeDefaultsNullCites ==
    [forward_cites |-> None, top_citing_assignees |-> None,
     simple_family_members |-> List(<<>>), expiration |-> None,
     assignee_current |-> None]
\* google_patents.py lines 205-211
ScrapeDefaults ==
    [forward_cites |-> PyInt(0), top_citing_assignees |-> None,
     simple_family_members |-> List(<<>>), expiration |-> None,
     assignee_current |-> None]

\* google_patents.py lines 187-216: the returned dict
scrape_all_patents(patents, w) ==
    [pn \in {patents[i] : i \in 1..Len(patents)} |->
        IF w[pn] = "fetch_failed" THEN ScrapeDefaults
        ELSE parse_google_patents_html(PageOf(pn), pn)]

\* results.get(patent_num, {})
GetResult(results, pn) ==
    IF pn \in DOMAIN results THEN Dict(results[pn]) ELSE Dict(<<>>)

\* enrich_patents.py lines 195-199
PortfolioAssignee(patents) ==
    LET with == {i \in 1..Len(patents) : Truthy(patents[i].assignee_original)}
    IN  IF with = {} THEN None ELSE patents[Least(with)].assignee_original

\* enrich_patents.py lines 169-201 (without the date of generation)
generate_output(template, uspto, google) ==
    LET patents == [i \in 1..Len(template) |->
                       merge_patent_data(GetResult(uspto, template[i]),
                                         GetResult(google, template[i]),
                                         template[i])]
    IN  [portfolio |-> [assignee |-> PortfolioAssignee(patents),
                        patent_count |-> Len(patents)],
         patents |-> patents]

\* the worlds of a batch: identifiers outside the batch are left alone, and
\* an identifier without a grant date has no weekly file to fail on
Worlds(patents) ==
    {w \in [PipelineIds -> FailureKinds] :
        \A pn \in PipelineIds :
            /\ (\A i \in 1..Len(patents) : patents[i] # pn) => w[pn] = "none"
            /\ pn \notin DOMAIN PATENT_GRANT_DATES
                  => w[pn] \in {"none", "fetch_failed"}}

\* the weekly files that exist
AvailableFiles(w) ==
    {FileOf(pn) : pn \in {q \in PipelineIds \cap DOMAIN PATENT_GRANT_DATES :
                             w[q] # "file_missing"}}

ArgSets ==
    [template_found : BOOLEAN, api_key : BOOLEAN, scrape_only : BOOLEAN,
     download_only : BOOLEAN, skip_google : BOOLEAN]

Init ==
    /\ args \in ArgSets
    /\ patent_numbers \in SeqsUpTo(PipelineIds, MaxBatch)
    /\ world \in Worlds(patent_numbers)
    /\ disk \in (IF args.api_key THEN {{}, AvailableFiles(world)}
                 ELSE {AvailableFiles(world)})
    /\ uspto_results = <<>>
    /\ google_results = <<>>
    /\ output = None
    /\ mainPc = "start"
    /\ LocIdle /\ XmlIdle /\ HtmlIdle /\ MergeIdle /\ FileIdle
    /\ DlIdle /\ ScrapeIdle

\* lines 215-221
LoadTemplate ==
    /\ mainPc = "start"
    /\ mainPc' = IF ~args.template_found THEN "exit1"
                 ELSE IF args.scrape_only THEN "parse"
                 ELSE "download"
    /\ UNCHANGED <<args, patent_numbers, world, disk, uspto_results,
                   google_results, output>>
    /\ UNCHANGED <<locVars, xmlVars, htmlVars, mergeVars, fileVars, dlVars,
                   scrapeVars>>

\* lines 229-239: download_all_required; a file that exists is added to the
\* downloads directory
DownloadRequired ==
    /\ mainPc = "download"
    /\ disk' = IF args.api_key
               THEN disk \cup (RequiredFiles(patent_numbers)
                               \cap AvailableFiles(world))
               ELSE disk
    /\ mainPc' = "verify"
    /\ UNCHANGED <<args, patent_numbers, world, uspto_results,
                   google_results, output>>
    /\ UNCHANGED <<locVars, xmlVars, htmlVars, mergeVars, fileVars, dlVars,
                   scrapeVars>>

\* lines 241-250
VerifyDownloads ==
    /\ mainPc = "verify"
    /\ mainPc' = IF MissingPatents(patent_numbers, disk) # {}
                     /\ ~args.download_only THEN "exit1"
                 ELSE IF args.download_only THEN "exit0"
                 ELSE "parse"
    /\ UNCHANGED <<args, patent_numbers, world, disk, uspto_results,
                   google_results, output>>
    /\ UNCHANGED <<locVars, xmlVars, htmlVars, mergeVars, fileVars, dlVars,
                   scrapeVars>>

\* lines 252-257
ParseUspto ==
    /\ mainPc = "parse"
    /\ uspto_results' =
           extract_all_patents(build_patent_to_file_mapping(patent_numbers),
                               disk, world)
    /\ mainPc' = "scrape"
    /\ UNCHANGED <<args, patent_numbers, world, disk, google_results, output>>
    /\ UNCHANGED <<locVars, xmlVars, htmlVars, mergeVars, fileVars, dlVars,
                   scrapeVars>>

\* lines 259-270
ScrapeGoogle ==
    /\ mainPc = "scrape"
    /\ google_results' = IF args.skip_google THEN <<>>
                         ELSE scrape_all_patents(patent_numbers, world)
    /\ mainPc' = "generate"
    /\ UNCHANGED <<args, patent_numbers, world, disk, uspto_results, output>>
    /\ UNCHANGED <<locVars, xmlVars, htmlVars, mergeVars, fileVars, dlVars,
                   scrapeVars>>

\* lines 272-299
GenerateAndWrite ==
    /\ mainPc = "generate"
    /\ output' = generate_output(patent_numbers, uspto_results, google_results)
    /\ mainPc' = "exit0"
    /\ UNCHANGED <<args, patent_numbers, world, disk, uspto_results,
                   google_results>>
    /\ UNCHANGED <<locVars, xmlVars, htmlVars, mergeVars, fileVars, dlVars,
                   scrapeVars>>

Next ==
    \/ LoadTemplate
    \/ DownloadRequired
    \/ VerifyDownloads
    \/ ParseUspto
    \/ ScrapeGoogle
    \/ GenerateAndWrite

Spec == Init /\ [][Next]_vars

\* the identifiers of the batch that the world fails
FailedIds ==
    {pn \in PipelineIds : world[pn] # "none"}

\* C3: a failure confined to one identifier never aborts the run: main ends
\* with an output that holds a canonical record for every identifier of the
\* batch, in order.
C3_OneFailureNeverAborts ==
    (/\ mainPc \in {"exit0", "exit1"}
     /\ args.template_found /\ ~args.download_only
     /\ Len(patent_numbers) = 2 /\ patent_numbers[1] # patent_numbers[2]
     /\ Cardinality(FailedIds) = 1)
    => /\ mainPc = "exit0"
       /\ output # None
       /\ Len(output.patents) = Len(patent_numbers)
       /\ \A i \in 1..Len(patent_numbers) :
             output.patents[i].number = patent_numbers[i]

\* C15: the canonical record of an identifier whose page fetch fails is the
\* record that merge gives for the same Primary Record and no Enrichment
\* Record: forward_cites 0, top_citing_assignees and expiration null,
\* simple_family_members empty, assignee_current the assignee_original.
C15_FetchFailureIsAbsentEnrichment ==
    (mainPc = "exit0" /\ output # None) =>
        \A i \in 1..Len(patent_numbers) :
            world[patent_numbers[i]] = "fetch_failed" =>
                LET record == output.patents[i]
                    primary == GetResult(uspto_results, patent_numbers[i])
                IN  /\ record = merge_patent_data(primary, NoDict, patent_numbers[i])
                    /\ record.forward_cites = PyInt(0)
                    /\ record.top_citing_assignees = None
                    /\ record.expiration = None
                    /\ record.simple_family_members = List(<<>>)
                    /\ record.assignee_current = FieldOf(primary, "assignee_original")

\* a page fetch failed for the second identifier of a batch whose documents
\* were all parsed; its record carries the Primary Record's assignee
C15_Witness ==
    /\ mainPc = "exit0" /\ output # None /\ ~args.skip_google
    /\ patent_numbers = <<US9294434B1, US9391881B2>>
    /\ world[US9391881B2] = "fetch_failed"
    /\ US9391881B2 \in DOMAIN google_results
    /\ output.patents[2].title = Str(Routing)
    /\ output.patents[2].assignee_current = Str(ACME)
    /\ output.patents[1].forward_cites = PyInt(3)

\* C16: generate_output creates exactly one canonical record per identifier:
\* no identifier is in more than one record, the records are in template
\* order, each is merged from the results stored under its own identifier,
\* and patent_count is the number of records.
C16_OneRecordPerIdentifier ==
    (mainPc = "exit0" /\ output # None) =>
        LET records == output.patents
        IN  /\ \A i, j \in 1..Len(records) :
                  i # j => records[i].number # records[j].number
            /\ {records[i].number : i \in 1..Len(records)}
                   = {patent_numbers[i] : i \in 1..Len(patent_numbers)}
            /\ \A i, j \in 1..Len(records) :
                  i < j => \E a, b \in 1..Len(patent_numbers) :
                              /\ a < b
                              /\ patent_numbers[a] = records[i].number
                              /\ patent_numbers[b] = records[j].number
            /\ \A i \in 1..Len(records) :
                  records[i] =
                      merge_patent_data(GetResult(uspto_results, records[i].number),
                                        GetResult(google_results, records[i].number),
                                        records[i].number)
            /\ output.portfolio.patent_count = Len(records)

----------------------------------------------------------------------------
(* The downloads of a batch: enrichment/uspto_download.py *)

\* identifiers of two weeks, two of them of one week, and one without a
\* grant date
DlIds == {US9391881B2, US12034799B2, US12034800B2, US391881B2}

\* a downloads directory of earlier complete downloads
StartDirs == [WeeklyFiles -> {"absent", "complete"}]

InitDownloadAll ==
    /\ dlNumbers \in SeqsUpTo(DlIds, MaxRequested)
    /\ downloads \in StartDirs
    /\ downloadsBefore = downloads
    /\ required_files = None /\ remaining = <<>> /\ attempted = <<>>
    /\ patentToFile = <<>> /\ dlFilename = <<>> /\ dlReturned = None
    /\ dlRan = FALSE /\ dlPc = "call"
    /\ LocIdle /\ XmlIdle /\ HtmlIdle /\ MergeIdle /\ MainIdle /\ FileIdle
    /\ ScrapeIdle

\* line 132, and the order of the loop of line 141
GetRequiredFiles ==
    /\ dlPc = "call"
    /\ required_files' = get_required_files(dlNumbers)
    /\ remaining' = SortedStrs(DOMAIN required_files')
    /\ dlPc' = "loop"
    /\ UNCHANGED <<dlNumbers, attempted, patentToFile, downloads,
                   downloadsBefore, dlFilename, dlReturned, dlRan>>
    /\ UNCHANGED <<locVars, xmlVars, htmlVars, mergeVars, mainVars, fileVars,
                   scrapeVars>>

\* lines 141-148 with the loop left at the first failure
DownloadNextFileStopping ==
    /\ dlPc = "loop" /\ remaining # <<>>
    /\ \E outcome \in ScriptOutcomes :
          LET filename == Head(remaining)
              call == download_file(filename, downloads, outcome)
          IN  /\ downloadsBefore' = downloads
              /\ downloads' = call.dir
              /\ dlFilename' = filename
              /\ dlReturned' = call.success
              /\ dlRan' = call.ran
              /\ attempted' = Append(attempted, [filename |-> filename,
                                                 success |-> call.success])
              /\ patentToFile' =
                     IF call.success
                     THEN [patent \in DOMAIN patentToFile
                                      \cup Range(required_files[filename]) |->
                              IF patent \in Range(required_files[filename])
                              THEN JoinPath(DownloadsDir, filename)
                              ELSE patentToFile[patent]]
                     ELSE patentToFile
              /\ remaining' = IF call.success THEN Tail(remaining) ELSE <<>>
    /\ UNCHANGED <<dlNumbers, required_files, dlPc>>
    /\ UNCHANGED <<locVars, xmlVars, htmlVars, mergeVars, mainVars, fileVars,
                   scrapeVars>>
\* lines 141-148: one turn of the loop
DownloadNextFile ==
    /\ dlPc = "loop" /\ remaining # <<>>
    /\ \E outcome \in ScriptOutcomes :
          LET filename == Head(remaining)
              call == download_file(filename, downloads, outcome)
          IN  /\ downloadsBefore' = downloads
              /\ downloads' = call.dir
              /\ dlFilename' = filename
              /\ dlReturned' = call.success
              /\ dlRan' = call.ran
              /\ attempted' = Append(attempted, [filename |-> filename,
                                                 success |-> call.success])
              /\ patentToFile' =
                     IF call.success
                     THEN [patent \in DOMAIN patentToFile
                                      \cup Range(required_files[filename]) |->
                              IF patent \in Range(required_files[filename])
                              THEN JoinPath(DownloadsDir, filename)
                              ELSE patentToFile[patent]]
                     ELSE patentToFile
              /\ remaining' = Tail(remaining)
    /\ UNCHANGED <<dlNumbers, required_files, dlPc>>
    /\ UNCHANGED <<locVars, xmlVars, htmlVars, mergeVars, mainVars, fileVars,
                   scrapeVars>>

\* line 150
ReturnPatentToFile ==
    /\ dlPc = "loop" /\ remaining = <<>>
    /\ dlPc' = "done"
    /\ UNCHANGED <<dlNumbers, required_files, remaining, attempted,
                   patentToFile, downloads, downloadsBefore, dlFilename,
                   dlReturned, dlRan>>
    /\ UNCHANGED <<locVars, xmlVars, htmlVars, mergeVars, mainVars, fileVars,
                   scrapeVars>>

NextDownloadAll == GetRequiredFiles \/ DownloadNextFile \/ ReturnPatentToFile
SpecDownloadAll == InitDownloadAll /\ [][NextDownloadAll]_vars

\* the identifiers of the call that have a grant date
DatedNumbers ==
    {dlNumbers[i] : i \in {j \in 1..Len(dlNumbers) :
                              dlNumbers[j] \in DOMAIN PATENT_GRANT_DATES}}

\* C21: a failed download never blocks the other files: when
\* download_all_required returns, download_file was called once for every
\* required file, in sorted filename order, whatever the earlier calls
\* returned; the returned map holds a patent exactly when it has a grant date
\* and the call for its weekly file returned success; and the patents of one
\* week map to the same path.
C21_FailedDownloadNeverBlocks ==
    dlPc = "done" =>
        /\ [i \in 1..Len(attempted) |-> attempted[i].filename]
               = SortedStrs(RequiredFiles(dlNumbers))
        /\ DOMAIN patentToFile
               = {patent \in DatedNumbers :
                     \E i \in 1..Len(attempted) :
                         /\ attempted[i].filename = FileOf(patent)
                         /\ attempted[i].success}
        /\ \A patent \in DOMAIN patentToFile :
               patentToFile[patent] = JoinPath(DownloadsDir, FileOf(patent))
        /\ \A a, b \in DOMAIN patentToFile :
               PATENT_GRANT_DATES[a] = PATENT_GRANT_DATES[b]
                   => patentToFile[a] = patentToFile[b]

\* the download of the first week failed, the file of the second week was
\* still attempted and both of its patents map to it
C21_Witness ==
    /\ dlPc = "done"
    /\ dlNumbers = <<US12034800B2, US9391881B2, US12034799B2>>
    /\ Len(attempted) = 2
    /\ attempted[1] = [filename |-> FileOf(US9391881B2), success |-> FALSE]
    /\ attempted[2] = [filename |-> FileOf(US12034799B2), success |-> TRUE]
    /\ DOMAIN patentToFile = {US12034799B2, US12034800B2}
    /\ patentToFile[US12034799B2] = patentToFile[US12034800B2]

----------------------------------------------------------------------------
(* download_file called again and again on one downloads directory *)

InitDownloadFile ==
    /\ downloads \in StartDirs
    /\ downloadsBefore = downloads
    /\ dlNumbers = <<>> /\ required_files = None /\ remaining = <<>>
    /\ attempted = <<>> /\ patentToFile = <<>> /\ dlFilename = <<>>
    /\ dlReturned = None /\ dlRan = FALSE /\ dlPc = "file"
    /\ LocIdle /\ XmlIdle /\ HtmlIdle /\ MergeIdle /\ MainIdle /\ FileIdle
    /\ ScrapeIdle

\* uspto_download.py lines 88-115: one call, the run of the script included
DownloadFile ==
    /\ dlPc \in {"file", "returned"}
    /\ \E filename \in WeeklyFiles, outcome \in ScriptOutcomes :
          LET call == download_file(filename, downloads, outcome)
          IN  /\ downloadsBefore' = downloads
              /\ downloads' = call.dir
              /\ dlFilename' = filename
              /\ dlReturned' = call.success
              /\ dlRan' = call.ran
    /\ dlPc' = "returned"
    /\ UNCHANGED <<dlNumbers, required_files, remaining, attempted,
                   patentToFile>>
    /\ UNCHANGED <<locVars, xmlVars, htmlVars, mergeVars, mainVars, fileVars,
                   scrapeVars>>

NextDownloadFile == DownloadFile
SpecDownloadFile == InitDownloadFile /\ [][NextDownloadFile]_vars

\* C23: after any sequence of download attempts, download_file returns True
\* for a filename only if the complete archive is stored under it; a file
\* that an interrupted or failed download left behind is never accepted as
\* already downloaded; and a complete file is never downloaded again.
C23_OnlyCompleteArchivesAccepted ==
    dlPc = "returned" =>
        /\ dlReturned => downloads[dlFilename] = "complete"
        /\ downloadsBefore[dlFilename] = "partial" => ~(dlReturned /\ ~dlRan)
        /\ downloadsBefore[dlFilename] = "complete"
               => ~dlRan /\ downloads = downloadsBefore

----------------------------------------------------------------------------
(* The loop of the scraper: enrichment/google_patents.py, scrape_all_patents *)

\* the delay argument, in seconds
Delays == {1, 2}

\* the entries of the timeline
FetchEvent(patent_num, ok) ==
    [kind |-> "fetch", patent |-> patent_num, ok |-> ok, seconds |-> 0]
SleepEvent(seconds) ==
    [kind |-> "sleep", patent |-> <<>>, ok |-> TRUE, seconds |-> seconds]

\* line 213 with a sleep after the last fetch too
SleepsAfterEvery(i, n) == i < n
\* line 213: i < len(patent_numbers) - 1
SleepsAfter(i, n) == i < n - 1

\* lines 192-193: results = {} and the loop about to start
InitScrape ==
    /\ scrapeNumbers \in SeqsUpTo(PipelineIds, MaxScrape)
    /\ scrapeDelay \in Delays
    /\ scrapeIndex = 0
    /\ scrapeResults = <<>>
    /\ timeline = <<>>
    /\ scrapePc = "loop"
    /\ LocIdle /\ XmlIdle /\ HtmlIdle /\ MergeIdle /\ MainIdle /\ FileIdle
    /\ DlIdle

\* lines 194-214: one turn of the loop; the fetch returns the page or None
ScrapeOnePatent ==
    /\ scrapePc = "loop" /\ scrapeIndex < Len(scrapeNumbers)
    /\ \E ok \in BOOLEAN :
          LET patent_num == scrapeNumbers[scrapeIndex + 1]
              data == IF ok
                      THEN parse_google_patents_html(PageOf(patent_num),
                                                     patent_num)
                      ELSE ScrapeDefaults
          IN  /\ scrapeResults' =
                     [pn \in DOMAIN scrapeResults \cup {patent_num} |->
                         IF pn = patent_num THEN data ELSE scrapeResults[pn]]
              /\ timeline' =
                     timeline \o <<FetchEvent(patent_num, ok)>>
                         \o (IF SleepsAfter(scrapeIndex, Len(scrapeNumbers))
                             THEN <<SleepEvent(scrapeDelay)>> ELSE <<>>)
    /\ scrapeIndex' = scrapeIndex + 1
    /\ UNCHANGED <<scrapeNumbers, scrapeDelay, scrapePc>>
    /\ UNCHANGED <<locVars, xmlVars, htmlVars, mergeVars, mainVars, fileVars,
                   dlVars>>

\* line 216
ReturnResults ==
    /\ scrapePc = "loop" /\ scrapeIndex = Len(scrapeNumbers)
    /\ scrapePc' = "done"
    /\ UNCHANGED <<scrapeNumbers, scrapeDelay, scrapeIndex, scrapeResults,
                   timeline>>
    /\ UNCHANGED <<locVars, xmlVars, htmlVars, mergeVars, mainVars, fileVars,
                   dlVars>>

NextScrape == ScrapeOnePatent \/ ReturnResults
SpecScrape == InitScrape /\ [][NextScrape]_vars

\* C22: scrape_all_patents fetches one page at a time in the order of the
\* input list, sleeps the configured delay between every two consecutive
\* fetches and not after the last one, and returns a result with exactly one
\* entry for every input identifier, whether its fetch succeeded or failed.
C22_OneFetchAtATimeWithDelay ==
    scrapePc = "done" =>
        LET n == Len(scrapeNumbers)
        IN  /\ Len(timeline) = IF n = 0 THEN 0 ELSE 2 * n - 1
            /\ \A k \in 1..n :
                   /\ timeline[2 * k - 1].kind = "fetch"
                   /\ timeline[2 * k - 1].patent = scrapeNumbers[k]
            /\ \A k \in 1..(n - 1) :
                   timeline[2 * k] = SleepEvent(scrapeDelay)
            /\ DOMAIN scrapeResults = Range(scrapeNumbers)

\* three identifiers, the fetch of the second failed: fetch, sleep, fetch,
\* sleep, fetch, and an entry for each of the three
C22_Witness ==
    /\ scrapePc = "done"
    /\ scrapeNumbers = <<US9391881B2, US391881B2, US9294434B1>>
    /\ scrapeDelay = 2
    /\ timeline = <<FetchEvent(US9391881B2, TRUE), SleepEvent(2),
                    FetchEvent(US391881B2, FALSE), SleepEvent(2),
                    FetchEvent(US9294434B1, TRUE)>>
    /\ scrapeResults[US391881B2] = ScrapeDefaults
    /\ scrapeResults[US9294434B1].forward_cites = PyInt(3)
    /\ Cardinality(DOMAIN scrapeResults) = 3

====
